---------------------------- MODULE Spec2Model ----------------------------
(***************************************************************************)
(* A model of mongodb/slogger (v2): the bounded overflow queue             *)
(* (v2/queue), the queued set built on it (v2/queued_set), the log         *)
(* retainer (v2/retaining_level_filter_appender), the asynchronous         *)
(* appender (v2/slogger/async_appender) and the rolling file appender      *)
(* (v2/slogger/rolling_file_appender).                                     *)
(*                                                                         *)
(* One module, several specifications over the same variables:             *)
(*   QueueSpec  - threads calling Queue.Enqueue / Queue.Dequeue            *)
(*                (QueueFairSpec and QueueBusyFairSpec add the             *)
(*                scheduling)                                              *)
(*   RetainerSpec - goroutines calling retainLog and                       *)
(*                sendLogsToAppender on one category                       *)
(*   QSetSpec   - threads calling QueuedSet.Add / QueuedSet.Contains       *)
(*                (QSetGroupSpec: each with a key group of its own)        *)
(*   AsyncSpec  - producers and flushers of one AsyncAppender and its      *)
(*                worker goroutine (AsyncFairSpec and                      *)
(*                AsyncFlushFairSpec add the scheduling, AsyncErrSpec      *)
(*                and AsyncFlushErrSpec a sub-appender that fails)         *)
(*   RfaSpec    - one RollingFileAppender, its files and the clock         *)
(*                (RfaFaultSpec and RfaBuildFaultSpec add file             *)
(*                operations that fail, RfaExtSpec a process that          *)
(*                renames the log file)                                    *)
(*   GzSpec     - one call of compressLogFile                              *)
(* Each specification leaves the variables of the other components at      *)
(* their initial values.                                                   *)
(***************************************************************************)
EXTENDS Integers, Sequences, FiniteSets

(***************************************************************************)
(* Bounds of the model.                                                    *)
(***************************************************************************)
MaxCap == 2       \* queue and queued-set capacities 0..MaxCap
MaxThreads == 2   \* goroutines using the queue / the queued set
MaxEnq == 3       \* Enqueue calls in all
NumKeys == 3      \* distinct keys given to Add
MaxAdds == 3      \* Add calls in all
MaxChanCap == 2   \* append channel capacities 0..MaxChanCap
MaxRecs == 3      \* records passed to Append in all
MaxOps == 4       \* calls of Append and of Flush in all
MaxRecLen == 2    \* the formatted length of the long records given to the file appender
MaxTime == 2      \* the clock runs from 0 to MaxTime ticks
MaxRfaOps == 3    \* calls of Append, Rotate and Reopen in all
MaxHeader == 1    \* the lines headerGenerator returns, when it returns any
TicksPerSec == 2     \* clock ticks per second, the resolution of rotated names
HdrLen == 3          \* the formatted length of a header line
MAX_ROTATE_SERIAL_NUM == 2   \* the last serial renameLogFile tries (1000000000 in the source)

(***************************************************************************)
(* State.                                                                  *)
(***************************************************************************)
VARIABLES
  \* ---- v2/queue: Queue ----
  qcap,        \* cap(q.items), the capacity given to New
  hasCb,       \* q.onForcedDequeue != nil
  items,       \* q.items, the buffered channel, oldest first
  nthreads,    \* number of goroutines using the queue / the set
  qpc,         \* per goroutine: its position in Enqueue / Add
  qitem,       \* per goroutine: the item parameter of Enqueue / Add
  qheld,       \* per goroutine: the item received at queue.go:53 (shadowing item)
  qret,        \* per goroutine: what its last Dequeue returned
  nextItem,    \* the next item a test goroutine enqueues (items are numbered in call order)
  enqBy,       \* history: per item, the goroutine whose Enqueue call passed it
  evicted,     \* history: the items passed to onForcedDequeue, in call order
  dequeued,    \* history: the items returned by Dequeue, in return order
  enqAfterDeq, \* history: some Enqueue was called after a Dequeue call
  retainer,    \* v2/retaining_level_filter_appender: per goroutine the logsLen and
               \* the errs of its sendLogsToAppender call, and the logs the
               \* appender was given, in order
  \* ---- v2/queued_set: QueuedSet ----
  set,         \* self.set, map[interface{}]int: a function on the keys present
  lockW,       \* self.lock: the goroutine holding the write lock, or 0
  qsCount,     \* per goroutine: the local count of Add
  qsPre,       \* history, per goroutine: Contains(item) when its Add took the lock
  qsRet,       \* per goroutine: what its last Add returned (isNew)
  qsHas,       \* per goroutine: what its last Contains returned
  addLog,      \* history: the keys of the Add calls that returned, in order
  \* ---- v2/slogger/async_appender: AsyncAppender ----
  chCap,       \* cap(self.appendCh), the channelCapacity given to New
  appendCh,    \* self.appendCh: the buffered logs, oldest first
  sendq,       \* the goroutines parked in a send on appendCh, with their logs, in order
  flushq,      \* the Flush callers parked in a send on flushCh (unbuffered), in order
  wpc,         \* the worker's position in listenForAppends
  wlog,        \* the worker's local log
  wto,         \* the worker's local flushReplyCh: the Flush caller it belongs to
  wval,        \* the value the worker sends on flushReplyCh
  needsFlush,  \* the worker's local needsFlush
  subLog,      \* the sub-appender: the logs passed to its Append, in order
  subFlushed,  \* the sub-appender: how many of them its last Flush call covered
  flushErr,    \* the sub-appender: its last Flush call returned an error
  ppc,         \* per producer: its position in Append
  pn,          \* per producer: how many of its records were passed to Append
  nfl,         \* number of goroutines that call Flush
  ncalls,      \* calls of Append and of Flush the goroutines make in all
  fpc,         \* per Flush caller: its position in Flush
  fn,          \* per Flush caller: how many Flush calls it has made
  fseen,       \* history, per Flush caller: per producer, how many of its Append
               \* calls had returned when the current Flush call began
  fsecond,     \* history, per Flush caller: its current Flush call follows a
               \* Flush call of its own with no Append in between
  fullRecs,    \* history: the records whose Append took the default case
  hasEh,       \* self.errHandler != nil
  subFails,    \* the sub-appender: which of its methods can return an error
  errs,        \* history: the positions in subLog of the logs whose sub-appender
               \* Append returned an error
  handled,     \* history: the errors passed to errHandler, in call order
  \* ---- v2/slogger/rolling_file_appender: RollingFileAppender ----
  rfaCfg,      \* the fields that do not change: maxFileSize, maxDuration,
               \* maxRotatedLogs, compressRotatedLogs, maxUncompressedLogs, and
               \* the number of lines headerGenerator returns
  rfa,         \* the fields that change: file, curFileSize, state
  fs,          \* the files: the one at absPath, the rotated ones by name, the
               \* hidden state file
  now,         \* the clock, in ticks
  faults,      \* the file operations that can fail
  rfaLast,     \* history: the last call, its arguments and its result
  gz           \* one call of compressLogFile: its position, the files, the handles

queueVars == <<qcap, hasCb, items, nthreads, qpc, qitem, qheld, qret, nextItem, enqBy,
               evicted, dequeued, enqAfterDeq, retainer>>
qsetVars == <<set, lockW, qsCount, qsPre, qsRet, qsHas, addLog>>
asyncVars == <<chCap, appendCh, sendq, flushq, wpc, wlog, wto, wval, needsFlush,
               subLog, subFlushed, ppc, pn, nfl, ncalls, fpc, fn, fseen, fsecond,
               fullRecs, hasEh, subFails, errs, handled, flushErr>>
errVars == <<hasEh, subFails, errs, handled, flushErr>>
rfaVars == <<rfaCfg, rfa, fs, now, faults, rfaLast, gz>>
vars == <<queueVars, qsetVars, asyncVars, rfaVars>>

Threads == 1..MaxThreads
Active == 1..nthreads
Keys == 1..NumKeys
Nil == 0

(***************************************************************************)
(* Helpers on sequences.                                                   *)
(***************************************************************************)
Range(s) == {s[i] : i \in 1..Len(s)}
Occurrences(s, x) == Cardinality({i \in 1..Len(s) : s[i] = x})
Max(a, b) == IF a >= b THEN a ELSE b
Interval(a, b) == [i \in 1..Max(b - a + 1, 0) |-> a + i - 1]
RECURSIVE SumOver(_, _)
SumOver(f, S) == IF S = {} THEN 0
                 ELSE LET x == CHOOSE y \in S : TRUE
                      IN  f[x] + SumOver(f, S \ {x})

\* The goroutines that call Append, and those that call Flush.
Producers == {1, 2}
Flushers == {1, 2}

\* The logs: record i of producer p, the synthetic warning of fullWarningLog,
\* and the worker's log variable while it holds none.
Rec(p, i) == <<p, i>>
Warn == <<0, 0>>
NoLog == <<>>

\* No AsyncAppender: the state of the specifications that do not use one.
AsyncAbsent ==
  /\ chCap = 0
  /\ appendCh = <<>>
  /\ sendq = <<>>
  /\ flushq = <<>>
  /\ wpc = "none"
  /\ wlog = NoLog
  /\ wto = 0
  /\ wval = FALSE
  /\ needsFlush = FALSE
  /\ subLog = <<>>
  /\ subFlushed = 0
  /\ flushErr = FALSE
  /\ ppc = [p \in Producers |-> "idle"]
  /\ pn = [p \in Producers |-> 0]
  /\ nfl = 0
  /\ ncalls = 0
  /\ fpc = [f \in Flushers |-> "idle"]
  /\ fn = [f \in Flushers |-> 0]
  /\ fseen = [f \in Flushers |-> [p \in Producers |-> 0]]
  /\ fsecond = [f \in Flushers |-> FALSE]
  /\ fullRecs = {}
  /\ hasEh = FALSE
  /\ subFails = {}
  /\ errs = {}
  /\ handled = <<>>

\* No RollingFileAppender: the state of the specifications that do not use one.
NoAppender == [file |-> "none", curFileSize |-> 0, state |-> -1]
NoCall == [op |-> "none"]

\* No call of compressLogFile followed statement by statement.
NoCompression == [pc |-> "idle"]

AppenderAbsent ==
  /\ rfaCfg = <<>>
  /\ rfa = NoAppender
  /\ fs = [active |-> [exists |-> FALSE, content |-> <<>>], rotated |-> <<>>, sidecar |-> -1,
           moved |-> [exists |-> FALSE, content |-> <<>>]]
  /\ now = 0
  /\ faults = {}
  /\ rfaLast = NoCall

RfaAbsent == AppenderAbsent /\ gz = NoCompression

(***************************************************************************)
(* v2/queue/queue.go                                                       *)
(***************************************************************************)
\* Len, IsEmpty, IsFull, Cap
QLen == Len(items)
QCap == qcap
IsEmpty == QLen = 0
IsFull == QLen = QCap

\* No sendLogsToAppender call has been made.
NoRetainer == [len |-> [t \in Threads |-> 0], errs |-> [t \in Threads |-> 0],
               sent |-> <<>>, calls |-> 0]

\* New(capacity, onForcedDequeue): an empty channel of the given capacity.
QueueNew(capacity, cb) ==
  /\ qcap = capacity
  /\ hasCb = cb
  /\ items = <<>>
  /\ qpc = [t \in Threads |-> "idle"]
  /\ qitem = [t \in Threads |-> Nil]
  /\ qheld = [t \in Threads |-> Nil]
  /\ qret = [t \in Threads |-> [item |-> Nil, err |-> "none"]]
  /\ nextItem = 1
  /\ enqBy = <<>>
  /\ evicted = <<>>
  /\ dequeued = <<>>
  /\ enqAfterDeq = FALSE
  /\ retainer = NoRetainer

\* A Dequeue that returns the newest item.
DequeueNewest == IF Len(items) > 0
                 THEN [item |-> items[Len(items)], err |-> "nil"]
                 ELSE [item |-> Nil, err |-> "UnderflowError"]

\* Dequeue: a non-blocking receive; UnderflowError when nothing is buffered.
DequeueResult == IF Len(items) > 0
                 THEN [item |-> Head(items), err |-> "nil"]
                 ELSE [item |-> Nil, err |-> "UnderflowError"]

Dequeue(t) ==
  /\ qpc[t] = "idle"
  /\ qret' = [qret EXCEPT ![t] = DequeueResult]
  /\ IF Len(items) > 0
       THEN /\ items' = Tail(items)
            /\ dequeued' = Append(dequeued, Head(items))
       ELSE UNCHANGED <<items, dequeued>>
  /\ UNCHANGED <<qcap, hasCb, nthreads, qpc, qitem, qheld, nextItem, enqBy, evicted, enqAfterDeq, retainer>>

\* Enqueue is entered: the goroutine is at the for loop's first select.
EnqueueCall(t, x) ==
  /\ qpc' = [qpc EXCEPT ![t] = "enq_send"]
  /\ qitem' = [qitem EXCEPT ![t] = x]

\* A send that finds no room whatever is buffered.
SendNeverSucceeds == Len(items) > qcap

\* A send that needs a spare slot beyond the one it fills.
SendNeedsSpare == Len(items) + 1 < qcap

\* queue.go:46-48: the non-blocking send. It succeeds iff the buffer has room
\* (nobody ever parks receiving on q.items); then Enqueue returns to retpc.
SendSucceeds == Len(items) < qcap

EnqueueSend(t, retpc) ==
  /\ qpc[t] = "enq_send"
  /\ IF SendSucceeds
       THEN /\ items' = Append(items, qitem[t])
            /\ qpc' = [qpc EXCEPT ![t] = retpc]
       ELSE /\ qpc' = [qpc EXCEPT ![t] = "enq_recv"]
            /\ UNCHANGED items
  /\ UNCHANGED <<qcap, hasCb, nthreads, qitem, qheld>>

\* A forced dequeue that takes the newest item instead of the oldest.
EnqueueForceNewest(t) ==
  /\ qpc[t] = "enq_recv"
  /\ IF Len(items) > 0
       THEN /\ items' = SubSeq(items, 1, Len(items) - 1)
            /\ IF hasCb
                 THEN /\ qheld' = [qheld EXCEPT ![t] = items[Len(items)]]
                      /\ qpc' = [qpc EXCEPT ![t] = "enq_cb"]
                 ELSE /\ qpc' = [qpc EXCEPT ![t] = "enq_send"]
                      /\ UNCHANGED qheld
       ELSE /\ qpc' = [qpc EXCEPT ![t] = "enq_send"]
            /\ UNCHANGED <<items, qheld>>
  /\ UNCHANGED <<qcap, hasCb, nthreads, qitem>>

\* A forced receive that hands the item it removes to no callback.
EnqueueForceSilent(t) ==
  /\ qpc[t] = "enq_recv"
  /\ IF Len(items) > 0
       THEN items' = Tail(items)
       ELSE UNCHANGED items
  /\ qpc' = [qpc EXCEPT ![t] = "enq_send"]
  /\ UNCHANGED <<qcap, hasCb, nthreads, qitem, qheld>>

\* queue.go:52-59: the forced dequeue, a non-blocking receive. With an item in
\* hand and a callback set the callback runs next; otherwise the loop restarts.
EnqueueForce(t) ==
  /\ qpc[t] = "enq_recv"
  /\ IF Len(items) > 0
       THEN /\ items' = Tail(items)
            /\ IF hasCb
                 THEN /\ qheld' = [qheld EXCEPT ![t] = Head(items)]
                      /\ qpc' = [qpc EXCEPT ![t] = "enq_cb"]
                 ELSE /\ qpc' = [qpc EXCEPT ![t] = "enq_send"]
                      /\ UNCHANGED qheld
       ELSE /\ qpc' = [qpc EXCEPT ![t] = "enq_send"]
            /\ UNCHANGED <<items, qheld>>
  /\ UNCHANGED <<qcap, hasCb, nthreads, qitem>>

\* queue.go:54-56: q.onForcedDequeue(item) returns and the loop restarts.
EnqueueCallbackReturn(t) ==
  /\ qpc[t] = "enq_cb"
  /\ qpc' = [qpc EXCEPT ![t] = "enq_send"]
  /\ qheld' = [qheld EXCEPT ![t] = Nil]
  /\ evicted' = Append(evicted, qheld[t])
  /\ UNCHANGED <<qcap, hasCb, nthreads, items, qitem>>

(***************************************************************************)
(* QueueSpec: goroutines that call Enqueue and Dequeue on one queue, as    *)
(* the tests of the queue package do; onForcedDequeue only records.        *)
(***************************************************************************)
QEnqueue(t) ==
  /\ qpc[t] = "idle"
  /\ nextItem <= MaxEnq
  /\ EnqueueCall(t, nextItem)
  /\ nextItem' = nextItem + 1
  /\ enqBy' = Append(enqBy, t)
  /\ enqAfterDeq' = (enqAfterDeq \/ \E u \in Active : qret[u].err /= "none")
  /\ UNCHANGED <<qcap, hasCb, nthreads, items, qheld, qret, evicted, dequeued, retainer>>

QEnqueueSend(t) ==
  /\ EnqueueSend(t, "idle")
  /\ UNCHANGED <<qret, nextItem, enqBy, evicted, dequeued, enqAfterDeq, retainer>>

QEnqueueForce(t) ==
  /\ EnqueueForce(t)
  /\ UNCHANGED <<qret, nextItem, enqBy, evicted, dequeued, enqAfterDeq, retainer>>

QOnForcedDequeue(t) ==
  /\ EnqueueCallbackReturn(t)
  /\ UNCHANGED <<qret, nextItem, enqBy, dequeued, enqAfterDeq, retainer>>

QSetIdle ==
  /\ set = <<>>
  /\ lockW = 0
  /\ qsCount = [t \in Threads |-> 0]
  /\ qsPre = [t \in Threads |-> FALSE]
  /\ qsRet = [t \in Threads |-> FALSE]
  /\ qsHas = [t \in Threads |-> FALSE]
  /\ addLog = <<>>

QueueInit ==
  /\ \E c \in 0..MaxCap, cb \in BOOLEAN : QueueNew(c, cb)
  /\ nthreads \in 1..MaxThreads
  /\ QSetIdle
  /\ AsyncAbsent
  /\ RfaAbsent

QueueNext ==
  \/ \E t \in Active : QEnqueue(t) /\ UNCHANGED <<qsetVars, asyncVars, rfaVars>>
  \/ \E t \in Active : QEnqueueSend(t) /\ UNCHANGED <<qsetVars, asyncVars, rfaVars>>
  \/ \E t \in Active : QEnqueueForce(t) /\ UNCHANGED <<qsetVars, asyncVars, rfaVars>>
  \/ \E t \in Active : QOnForcedDequeue(t) /\ UNCHANGED <<qsetVars, asyncVars, rfaVars>>
  \/ \E t \in Active : Dequeue(t) /\ UNCHANGED <<qsetVars, asyncVars, rfaVars>>

QueueSpec == QueueInit /\ [][QueueNext]_vars

\* A running goroutine keeps running: each thread's steps inside Enqueue are
\* taken eventually.
QueueFairSpec == QueueSpec /\ \A t \in Threads :
                   WF_vars(t \in Active /\ (QEnqueueSend(t) \/ QEnqueueForce(t) \/ QOnForcedDequeue(t))
                             /\ UNCHANGED <<qsetVars, asyncVars, rfaVars>>)

\* The contended queue: a capacity of at least 1, a callback, all the
\* goroutines there are, and QueueFairSpec's scheduling.
QueueBusyInit ==
  /\ QueueInit
  /\ qcap >= 1
  /\ hasCb
  /\ nthreads = MaxThreads

QueueBusyFairSpec ==
  /\ QueueBusyInit
  /\ [][QueueNext]_vars
  /\ \A t \in Threads :
       WF_vars((QEnqueueSend(t) \/ QEnqueueForce(t) \/ QOnForcedDequeue(t))
                 /\ UNCHANGED <<qsetVars, asyncVars, rfaVars>>)

(***************************************************************************)
(* v2/retaining_level_filter_appender/log_retainer.go                      *)
(*                                                                         *)
(* The queue of one category, made by queue.New(queueCapacity, nil).       *)
(* retainLog is Enqueue on it; sendLogsToAppender runs on it statement by  *)
(* statement, so that several calls and retainLog interleave. The appender *)
(* given to sendLogsToAppender returns nil from Append.                    *)
(***************************************************************************)
\* Lines 85-94: errs is empty, the queue of the category is found, and the
\* loop starts with logsLen := logsQ.Len().
sendLogsCall(t) ==
  /\ qpc[t] = "idle"
  /\ retainer.calls < MaxThreads
  /\ qpc' = [qpc EXCEPT ![t] = "send_loop"]
  /\ retainer' = [retainer EXCEPT !.len[t] = QLen, !.errs[t] = 0, !.calls = @ + 1]
  /\ UNCHANGED <<qcap, hasCb, items, nthreads, qitem, qheld, qret, nextItem, enqBy,
                 evicted, dequeued, enqAfterDeq>>

\* Lines 94-106: logsLen > 0 and logsQ.Dequeue() is called. Its error, when
\* it returns one, is an UnderflowError: ok is true, the return of line 99
\* is passed over, the error is appended to errs and the loop continues
\* with logsLen--.
sendLogsDequeue(t) ==
  /\ qpc[t] = "send_loop"
  /\ retainer.len[t] > 0
  /\ qret' = [qret EXCEPT ![t] = DequeueResult]
  /\ IF DequeueResult.err = "nil"
       THEN /\ items' = Tail(items)
            /\ dequeued' = Append(dequeued, Head(items))
            /\ qheld' = [qheld EXCEPT ![t] = DequeueResult.item]
            /\ qpc' = [qpc EXCEPT ![t] = "send_append"]
            /\ UNCHANGED retainer
       ELSE /\ retainer' = [retainer EXCEPT !.errs[t] = @ + 1, !.len[t] = @ - 1]
            /\ UNCHANGED <<items, dequeued, qheld, qpc>>
  /\ UNCHANGED <<qcap, hasCb, nthreads, qitem, nextItem, enqBy, evicted, enqAfterDeq>>

\* Lines 108-118: the item is a log, appender.Append(log) returns nil, and
\* the loop continues with logsLen--.
sendLogsAppend(t) ==
  /\ qpc[t] = "send_append"
  /\ retainer' = [retainer EXCEPT !.sent = Append(@, qheld[t]), !.len[t] = @ - 1]
  /\ qheld' = [qheld EXCEPT ![t] = Nil]
  /\ qpc' = [qpc EXCEPT ![t] = "send_loop"]
  /\ UNCHANGED <<qcap, hasCb, items, nthreads, qitem, qret, nextItem, enqBy,
                 evicted, dequeued, enqAfterDeq>>

\* Lines 94 and 120: logsLen is 0: return errs.
sendLogsReturn(t) ==
  /\ qpc[t] = "send_loop"
  /\ retainer.len[t] = 0
  /\ qpc' = [qpc EXCEPT ![t] = "idle"]
  /\ UNCHANGED <<qcap, hasCb, items, nthreads, qitem, qheld, qret, nextItem, enqBy,
                 evicted, dequeued, enqAfterDeq, retainer>>

RetainerNext ==
  \/ \E t \in Active : QEnqueue(t) /\ UNCHANGED <<qsetVars, asyncVars, rfaVars>>
  \/ \E t \in Active : QEnqueueSend(t) /\ UNCHANGED <<qsetVars, asyncVars, rfaVars>>
  \/ \E t \in Active : QEnqueueForce(t) /\ UNCHANGED <<qsetVars, asyncVars, rfaVars>>
  \/ \E t \in Active : sendLogsCall(t) /\ UNCHANGED <<qsetVars, asyncVars, rfaVars>>
  \/ \E t \in Active : sendLogsDequeue(t) /\ UNCHANGED <<qsetVars, asyncVars, rfaVars>>
  \/ \E t \in Active : sendLogsAppend(t) /\ UNCHANGED <<qsetVars, asyncVars, rfaVars>>
  \/ \E t \in Active : sendLogsReturn(t) /\ UNCHANGED <<qsetVars, asyncVars, rfaVars>>

\* newLogRetainer(queueCapacity) with a capacity of at least 1, and the
\* goroutines that call retainLog and AppendRetainedLogs on one category.
RetainerInit ==
  /\ \E c \in 1..MaxCap : QueueNew(c, FALSE)
  /\ nthreads \in 1..MaxThreads
  /\ QSetIdle
  /\ AsyncAbsent
  /\ RfaAbsent

RetainerSpec == RetainerInit /\ [][RetainerNext]_vars

(***************************************************************************)
(* v2/queued_set/queued_set.go                                             *)
(***************************************************************************)
\* self.set[k]: the zero value for a key that is not in the map.
SetGet(m, k) == IF k \in DOMAIN m THEN m[k] ELSE 0
\* self.set[k] = v
SetPut(m, k, v) == [x \in DOMAIN m \cup {k} |-> IF x = k THEN v ELSE m[x]]
\* delete(self.set, k)
SetRemove(m, k) == [x \in DOMAIN m \ {k} |-> m[x]]

\* Contains' result on the map m.
ContainsIn(m, k) == SetGet(m, k) /= 0

\* delete (queued_set.go:52-61), the queue's onForcedDequeue.
SetDelete(m, k) == IF SetGet(m, k) <= 1
                   THEN SetRemove(m, k)
                   ELSE SetPut(m, k, SetGet(m, k) - 1)

\* New(capacity): the queue with qs.delete as its callback, an empty map.
QueuedSetNew(capacity) ==
  /\ QueueNew(capacity, TRUE)
  /\ set = <<>>
  /\ lockW = 0
  /\ qsCount = [t \in Threads |-> 0]
  /\ qsPre = [t \in Threads |-> FALSE]
  /\ qsRet = [t \in Threads |-> FALSE]
  /\ qsHas = [t \in Threads |-> FALSE]
  /\ addLog = <<>>

\* An Add that does not wait for the lock.
AddLockShared(t, k) ==
  /\ qpc[t] = "idle"
  /\ Len(addLog) + Cardinality({u \in Active : qpc[u] /= "idle"}) < MaxAdds
  /\ lockW' = t
  /\ qpc' = [qpc EXCEPT ![t] = "add_read"]
  /\ qitem' = [qitem EXCEPT ![t] = k]
  /\ qsPre' = [qsPre EXCEPT ![t] = ContainsIn(set, k)]
  /\ UNCHANGED <<qcap, hasCb, nthreads, items, qheld, qret, nextItem, enqBy, evicted,
                 dequeued, enqAfterDeq, retainer, set, qsCount, qsRet, qsHas, addLog>>

\* Add, queued_set.go:37: self.lock.Lock() is granted.
AddLock(t, k) ==
  /\ qpc[t] = "idle"
  /\ lockW = 0
  /\ Len(addLog) + Cardinality({u \in Active : qpc[u] /= "idle"}) < MaxAdds
  /\ lockW' = t
  /\ qpc' = [qpc EXCEPT ![t] = "add_read"]
  /\ qitem' = [qitem EXCEPT ![t] = k]
  /\ qsPre' = [qsPre EXCEPT ![t] = ContainsIn(set, k)]
  /\ UNCHANGED <<qcap, hasCb, nthreads, items, qheld, qret, nextItem, enqBy, evicted,
                 dequeued, enqAfterDeq, retainer, set, qsCount, qsRet, qsHas, addLog>>

\* Add, queued_set.go:39-40: count := self.set[item], then Enqueue is entered.
AddRead(t) ==
  /\ qpc[t] = "add_read"
  /\ qsCount' = [qsCount EXCEPT ![t] = SetGet(set, qitem[t])]
  /\ EnqueueCall(t, qitem[t])
  /\ UNCHANGED <<qcap, hasCb, nthreads, items, qheld, qret, nextItem, enqBy, evicted,
                 dequeued, enqAfterDeq, retainer, set, lockW, qsPre, qsRet, qsHas, addLog>>

AddEnqueueSend(t) ==
  /\ EnqueueSend(t, "add_store")
  /\ UNCHANGED <<qret, nextItem, enqBy, evicted, dequeued, enqAfterDeq, retainer>>
  /\ UNCHANGED qsetVars

AddEnqueueForce(t) ==
  /\ EnqueueForce(t)
  /\ UNCHANGED <<qret, nextItem, enqBy, evicted, dequeued, enqAfterDeq, retainer>>
  /\ UNCHANGED qsetVars

\* The queue calls qs.delete with the evicted key (the lock is held by Add).
AddOnForcedDequeue(t) ==
  /\ EnqueueCallbackReturn(t)
  /\ set' = SetDelete(set, qheld[t])
  /\ UNCHANGED <<qret, nextItem, enqBy, dequeued, enqAfterDeq, retainer>>
  /\ UNCHANGED <<lockW, qsCount, qsPre, qsRet, qsHas, addLog>>

\* An isNew that also reports a key with one occurrence as new.
AddIsNewOffByOne(count) == count <= 1

\* Add's result: isNew.
AddIsNew(count) == count = 0

\* Add, queued_set.go:41-43: self.set[item] = count + 1; return count == 0,
\* and the deferred Unlock.
AddStore(t) ==
  /\ qpc[t] = "add_store"
  /\ set' = SetPut(set, qitem[t], qsCount[t] + 1)
  /\ qsRet' = [qsRet EXCEPT ![t] = AddIsNew(qsCount[t])]
  /\ lockW' = 0
  /\ qpc' = [qpc EXCEPT ![t] = "idle"]
  /\ addLog' = Append(addLog, qitem[t])
  /\ UNCHANGED <<qcap, hasCb, nthreads, items, qitem, qheld, qret, nextItem, enqBy, evicted,
                 dequeued, enqAfterDeq, retainer, qsCount, qsPre, qsHas>>

\* Contains (queued_set.go:45-49): a read under the read lock, which is
\* granted while no Add holds the write lock.
Contains(t, k) ==
  /\ qpc[t] = "idle"
  /\ lockW = 0
  /\ qsHas' = [qsHas EXCEPT ![t] = ContainsIn(set, k)]
  /\ UNCHANGED <<queueVars, set, lockW, qsCount, qsPre, qsRet, addLog>>

QSetInit ==
  /\ \E c \in 0..MaxCap : QueuedSetNew(c)
  /\ nthreads \in 1..MaxThreads
  /\ AsyncAbsent
  /\ RfaAbsent

QSetNext ==
  \/ \E t \in Active, k \in Keys : AddLock(t, k) /\ UNCHANGED <<asyncVars, rfaVars>>
  \/ \E t \in Active : AddRead(t) /\ UNCHANGED <<asyncVars, rfaVars>>
  \/ \E t \in Active : AddEnqueueSend(t) /\ UNCHANGED <<asyncVars, rfaVars>>
  \/ \E t \in Active : AddEnqueueForce(t) /\ UNCHANGED <<asyncVars, rfaVars>>
  \/ \E t \in Active : AddOnForcedDequeue(t) /\ UNCHANGED <<asyncVars, rfaVars>>
  \/ \E t \in Active : AddStore(t) /\ UNCHANGED <<asyncVars, rfaVars>>
  \/ \E t \in Active, k \in Keys : Contains(t, k) /\ UNCHANGED <<asyncVars, rfaVars>>

QSetSpec == QSetInit /\ [][QSetNext]_vars

(***************************************************************************)
(* QSetGroupSpec: the goroutines of TestConcurrentAdd. Goroutine t adds    *)
(* the keys of its own group (the keys k with k = t modulo the number of   *)
(* goroutines), each not smaller than the one before: addGroup adds the    *)
(* items of a group in the order of their seq.                             *)
(***************************************************************************)
addGroup(t) ==
  \E k \in Keys :
    /\ (k - 1) % nthreads = t - 1
    /\ k >= qitem[t]
    /\ AddLock(t, k)

QSetGroupNext ==
  \/ \E t \in Active : addGroup(t) /\ UNCHANGED <<asyncVars, rfaVars>>
  \/ \E t \in Active : AddRead(t) /\ UNCHANGED <<asyncVars, rfaVars>>
  \/ \E t \in Active : AddEnqueueSend(t) /\ UNCHANGED <<asyncVars, rfaVars>>
  \/ \E t \in Active : AddEnqueueForce(t) /\ UNCHANGED <<asyncVars, rfaVars>>
  \/ \E t \in Active : AddOnForcedDequeue(t) /\ UNCHANGED <<asyncVars, rfaVars>>
  \/ \E t \in Active : AddStore(t) /\ UNCHANGED <<asyncVars, rfaVars>>
  \/ \E t \in Active, k \in Keys : Contains(t, k) /\ UNCHANGED <<asyncVars, rfaVars>>

QSetGroupSpec == QSetInit /\ [][QSetGroupNext]_vars

(***************************************************************************)
(* v2/slogger/async_appender/async_appender.go                             *)
(*                                                                         *)
(* Go's channels are modelled as the runtime implements them: a send, as   *)
(* one step, hands its value to a receiver parked on the channel, or puts  *)
(* it in the buffer when there is room, or parks the sender in the         *)
(* channel's FIFO send queue; a receive takes the oldest buffered value    *)
(* and moves the first parked sender's value into the buffer (or, with no  *)
(* buffer, takes the first parked sender's value), waking that sender.     *)
(* The only goroutine that ever parks receiving is the worker, in the      *)
(* select of listenForAppends that has no default.                         *)
(***************************************************************************)
\* A buffer that puts the new value in front of the older ones.
ChanPutFront(buf, v) == <<v>> \o buf

\* The buffer of a channel after a value is sent into a free slot.
ChanPut(buf, v) == Append(buf, v)

\* A len that reads 0 whatever is buffered.
AppendChLenZero == Len(<<>>)

\* len(self.appendCh) counts the buffered logs only.
AppendChLen == Len(appendCh)

\* A receive from appendCh can proceed.
AppendReady == Len(appendCh) > 0 \/ Len(sendq) > 0
\* A flush channel on which the worker never sees a parked sender.
FlushNeverReady == Len(flushq) > Cardinality(Flushers)

\* A receive from flushCh can proceed.
FlushReady == Len(flushq) > 0

\* New(appender, channelCapacity, errHandler): empty channels, and the worker
\* started at the top of listenForAppends with needsFlush false.
AsyncNew(capacity, eh) ==
  /\ chCap = capacity
  /\ appendCh = <<>>
  /\ sendq = <<>>
  /\ flushq = <<>>
  /\ wpc = "loop"
  /\ wlog = NoLog
  /\ wto = 0
  /\ wval = FALSE
  /\ needsFlush = FALSE
  /\ subLog = <<>>
  /\ subFlushed = 0
  /\ flushErr = FALSE
  /\ ppc = [p \in Producers |-> "idle"]
  /\ pn = [p \in Producers |-> 0]
  /\ fpc = [f \in Flushers |-> "idle"]
  /\ fn = [f \in Flushers |-> 0]
  /\ fseen = [f \in Flushers |-> [p \in Producers |-> 0]]
  /\ fsecond = [f \in Flushers |-> FALSE]
  /\ fullRecs = {}
  /\ hasEh = eh
  /\ errs = {}
  /\ handled = <<>>

\* Where a producer continues when the worker receives the value it is
\* parked with: after the warning (line 48) comes the log (line 49), after
\* the log Append returns.
WakePc(pc) == IF pc = "warnParked" THEN "log" ELSE "idle"

\* The worker's receive from appendCh (case log := <-self.appendCh).
ChanRecv ==
  /\ AppendReady
  /\ wlog' = IF Len(appendCh) > 0 THEN Head(appendCh) ELSE sendq[1].log
  /\ appendCh' = IF Len(appendCh) = 0 THEN appendCh
                 ELSE IF Len(sendq) > 0 THEN ChanPut(Tail(appendCh), sendq[1].log)
                 ELSE Tail(appendCh)
  /\ IF Len(sendq) > 0
       THEN /\ sendq' = Tail(sendq)
            /\ ppc' = [ppc EXCEPT ![sendq[1].p] = WakePc(@)]
       ELSE UNCHANGED <<sendq, ppc>>

\* A blocking send of v on appendCh by producer p (lines 48 and 49).
ChanSend(p, v, donePc, parkPc) ==
  IF wpc = "parked"
    THEN /\ wlog' = v
         /\ wpc' = "append"
         /\ ppc' = [ppc EXCEPT ![p] = donePc]
         /\ UNCHANGED <<appendCh, sendq>>
    ELSE IF Len(appendCh) < chCap
      THEN /\ appendCh' = ChanPut(appendCh, v)
           /\ ppc' = [ppc EXCEPT ![p] = donePc]
           /\ UNCHANGED <<sendq, wpc, wlog>>
      ELSE /\ sendq' = Append(sendq, [p |-> p, log |-> v])
           /\ ppc' = [ppc EXCEPT ![p] = parkPc]
           /\ UNCHANGED <<appendCh, wpc, wlog>>

\* The calls of Append and of Flush made so far.
Calls == SumOver(pn, Producers) + SumOver(fn, Flushers)

\* An Append whose default case returns without sending anything.
AppendDefaultDrops == "idle"

\* An Append whose default case sends the log without the warning.
AppendSkipsWarning == "log"

\* Append, lines 46-48: the default case goes on to send the warning.
AppendDefaultPc == "warn"

\* Append, line 51, and Flush, line 60: return nil.
AppendResult == "nil"
FlushResult == "nil"

\* Append, lines 42-46: the select with a default. The send case is taken
\* iff the worker is parked in its receive or the buffer has room; with it
\* Append returns.
AsyncAppend(p) ==
  /\ ppc[p] = "idle"
  /\ SumOver(pn, Producers) < MaxRecs
  /\ Calls < ncalls
  /\ pn' = [pn EXCEPT ![p] = @ + 1]
  /\ IF wpc = "parked"
       THEN /\ wlog' = Rec(p, pn[p] + 1)
            /\ wpc' = "append"
            /\ UNCHANGED <<appendCh, ppc>>
       ELSE IF Len(appendCh) < chCap
         THEN /\ appendCh' = ChanPut(appendCh, Rec(p, pn[p] + 1))
              /\ UNCHANGED <<wlog, wpc, ppc>>
         ELSE /\ ppc' = [ppc EXCEPT ![p] = AppendDefaultPc]
              /\ UNCHANGED <<wlog, wpc, appendCh>>
  /\ fullRecs' = IF wpc /= "parked" /\ Len(appendCh) >= chCap
                 THEN fullRecs \cup {Rec(p, pn[p] + 1)}
                 ELSE fullRecs
  /\ UNCHANGED <<chCap, sendq, flushq, wto, wval, needsFlush, subLog, subFlushed, nfl, ncalls, fpc, fn, fseen, fsecond, errVars>>

\* Append, line 48: self.appendCh <- self.fullWarningLog()
AppendSendWarning(p) ==
  /\ ppc[p] = "warn"
  /\ ChanSend(p, Warn, "log", "warnParked")
  /\ UNCHANGED <<chCap, flushq, wto, wval, needsFlush, subLog, subFlushed, pn, nfl, ncalls, fpc, fn, fseen, fsecond, fullRecs, errVars>>

\* Append, lines 49-51: self.appendCh <- log; return nil
AppendSendLog(p) ==
  /\ ppc[p] = "log"
  /\ ChanSend(p, Rec(p, pn[p]), "idle", "logParked")
  /\ UNCHANGED <<chCap, flushq, wto, wval, needsFlush, subLog, subFlushed, pn, nfl, ncalls, fpc, fn, fseen, fsecond, fullRecs, errVars>>

\* How many of p's Append calls have returned.
Returned(p) == IF ppc[p] = "idle" THEN pn[p] ELSE pn[p] - 1

\* Flush is called (line 54-55): replyCh := make(chan bool).
FlushCall(f) ==
  /\ f <= nfl
  /\ fpc[f] \in {"idle", "done"}
  /\ Calls < ncalls
  /\ fn' = [fn EXCEPT ![f] = @ + 1]
  /\ fpc' = [fpc EXCEPT ![f] = "post"]
  /\ fseen' = [fseen EXCEPT ![f] = [p \in Producers |-> Returned(p)]]
  /\ fsecond' = [fsecond EXCEPT ![f] = (fpc[f] = "done" /\ fseen[f] = pn)]
  /\ UNCHANGED <<chCap, appendCh, sendq, flushq, wpc, wlog, wto, wval, needsFlush,
                 subLog, subFlushed, ppc, pn, nfl, ncalls, fullRecs, errVars>>

\* Flush, lines 56 and 58: self.flushCh <- replyCh. The channel has no
\* buffer: the worker takes the value if it is parked, else the caller parks.
FlushPost(f) ==
  /\ fpc[f] = "post"
  /\ IF wpc = "parked"
       THEN /\ wpc' = "gotFlush"
            /\ wto' = f
            /\ fpc' = [fpc EXCEPT ![f] = "wait"]
            /\ UNCHANGED flushq
       ELSE /\ flushq' = Append(flushq, f)
            /\ fpc' = [fpc EXCEPT ![f] = "postParked"]
            /\ UNCHANGED <<wpc, wto>>
  /\ UNCHANGED <<chCap, appendCh, sendq, wlog, wval, needsFlush, subLog, subFlushed, ppc, pn, nfl, ncalls, fn, fseen, fsecond, fullRecs, errVars>>

\* listenForAppends, lines 98-101: needsFlush is false and the select takes
\* the append case.
WorkerRecvIdle ==
  /\ wpc = "loop"
  /\ ~needsFlush
  /\ ChanRecv
  /\ wpc' = "append"
  /\ UNCHANGED <<chCap, flushq, wto, wval, needsFlush, subLog, subFlushed, pn, nfl, ncalls, fpc, fn, fseen, fsecond, fullRecs, errVars>>

\* listenForAppends, lines 98 and 102: needsFlush is false and the select
\* takes the flush case: the first parked Flush caller's send completes.
WorkerRecvFlush ==
  /\ wpc = "loop"
  /\ ~needsFlush
  /\ FlushReady
  /\ wto' = Head(flushq)
  /\ flushq' = Tail(flushq)
  /\ fpc' = [fpc EXCEPT ![Head(flushq)] = "wait"]
  /\ wpc' = "gotFlush"
  /\ UNCHANGED <<chCap, appendCh, sendq, wlog, wval, needsFlush, subLog, subFlushed, ppc, pn, nfl, ncalls, fn, fseen, fsecond, fullRecs, errVars>>

\* listenForAppends, line 98: neither case is ready and the worker parks.
WorkerPark ==
  /\ wpc = "loop"
  /\ ~needsFlush
  /\ ~AppendReady
  /\ ~FlushReady
  /\ wpc' = "parked"
  /\ UNCHANGED <<chCap, appendCh, sendq, flushq, wlog, wto, wval, needsFlush, subLog, subFlushed,
                 ppc, pn, nfl, ncalls, fpc, fn, fseen, fsecond, fullRecs, errVars>>

\* listenForAppends, lines 89-92: needsFlush is true and a log is there.
WorkerRecvBusy ==
  /\ wpc = "loop"
  /\ needsFlush
  /\ ChanRecv
  /\ wpc' = "append"
  /\ UNCHANGED <<chCap, flushq, wto, wval, needsFlush, subLog, subFlushed, pn, nfl, ncalls, fpc, fn, fseen, fsecond, fullRecs, errVars>>

\* listenForAppends, lines 89-93: needsFlush is true and the channel is
\* empty: the default case.
WorkerDefault ==
  /\ wpc = "loop"
  /\ needsFlush
  /\ ~AppendReady
  /\ wpc' = "flush"
  /\ UNCHANGED <<chCap, appendCh, sendq, flushq, wlog, wto, wval, needsFlush, subLog, subFlushed,
                 ppc, pn, nfl, ncalls, fpc, fn, fseen, fsecond, fullRecs, errVars>>

\* What self.Appender.Append can return: nil, or an error (TRUE) when the
\* sub-appender is one that fails.
SubAppendErrs == IF "Append" \in subFails THEN {FALSE, TRUE} ELSE {FALSE}

\* An appendToSubAppender that calls errHandler whenever one is set.
HandlesAlways(err) == hasEh

\* appendToSubAppender, line 64: err != nil && self.errHandler != nil
HandlesErr(err) == err /\ hasEh

\* appendToSubAppender, line 64: self.Appender.Append(log) returns. With
\* nothing to hand to errHandler appendToSubAppender returns too (lines 92
\* and 100-101); needsFlush is true afterwards on both paths of the loop.
WorkerAppend ==
  /\ wpc = "append"
  /\ subLog' = Append(subLog, wlog)
  /\ wlog' = NoLog
  /\ needsFlush' = TRUE
  /\ \E err \in SubAppendErrs :
       /\ errs' = IF err THEN errs \cup {Len(subLog) + 1} ELSE errs
       /\ wpc' = IF HandlesErr(err) THEN "errh" ELSE "loop"
  /\ UNCHANGED <<chCap, appendCh, sendq, flushq, wto, wval, subFlushed, ppc, pn, nfl, ncalls, fpc, fn, fseen, fsecond, fullRecs, hasEh, subFails, handled, flushErr>>

\* appendToSubAppender, line 65: self.errHandler(err) returns, with the error
\* of the log just passed to the sub-appender.
WorkerErrHandler ==
  /\ wpc = "errh"
  /\ handled' = Append(handled, Len(subLog))
  /\ wpc' = "loop"
  /\ UNCHANGED <<chCap, appendCh, sendq, flushq, wlog, wto, wval, needsFlush, subLog, subFlushed,
                 ppc, pn, nfl, ncalls, fpc, fn, fseen, fsecond, fullRecs, hasEh, subFails, errs, flushErr>>

\* A worker that hands the error of self.Appender.Flush() to errHandler.
FlushErrToHandler(err) == IF err /\ hasEh THEN "errh" ELSE "loop"

\* Line 94: self.Appender.Flush() is a statement of its own: what it
\* returns is dropped and the loop goes on.
FlushErrPc(err) == "loop"

\* self.Appender.Flush() returns, nil or - from a sub-appender whose Flush
\* fails - an error; needsFlush = false (lines 94-95).
WorkerFlush ==
  /\ wpc = "flush"
  /\ \E err \in (IF "Flush" \in subFails THEN BOOLEAN ELSE {FALSE}) :
       /\ subFlushed' = Len(subLog)
       /\ flushErr' = err
       /\ wpc' = FlushErrPc(err)
  /\ needsFlush' = FALSE
  /\ UNCHANGED <<chCap, appendCh, sendq, flushq, wlog, wto, wval, subLog, ppc, pn, nfl, ncalls, fpc, fn, fseen, fsecond, fullRecs, hasEh, subFails, errs, handled>>

\* A reply that is true whatever is buffered.
ReplyAlwaysTrue == TRUE

\* A reply that is true when logs are buffered and false when none is.
ReplyNonEmpty == AppendChLen > 0

\* A reply that is never true.
ReplyNever == FALSE

\* Line 103: the value of len(self.appendCh) <= 0.
ReplyValue == AppendChLen <= 0

\* Line 103: the worker evaluates the reply; the send on flushReplyCh follows.
WorkerEvalReply ==
  /\ wpc = "gotFlush"
  /\ wval' = ReplyValue
  /\ wpc' = "reply"
  /\ UNCHANGED <<chCap, appendCh, sendq, flushq, wlog, wto, needsFlush, subLog, subFlushed,
                 ppc, pn, nfl, ncalls, fpc, fn, fseen, fsecond, fullRecs, errVars>>

\* Line 103 meets line 57: the rendezvous on the reply channel. On true
\* Flush returns nil (line 60), on false it posts again (line 58).
WorkerReply ==
  /\ wpc = "reply"
  /\ fpc[wto] = "wait"
  /\ fpc' = [fpc EXCEPT ![wto] = IF wval THEN "done" ELSE "post"]
  /\ wpc' = "loop"
  /\ wto' = 0
  /\ wval' = FALSE
  /\ UNCHANGED <<chCap, appendCh, sendq, flushq, wlog, needsFlush, subLog, subFlushed,
                 ppc, pn, nfl, ncalls, fn, fseen, fsecond, fullRecs, errVars>>

WorkerNext ==
  \/ WorkerRecvIdle
  \/ WorkerRecvFlush
  \/ WorkerPark
  \/ WorkerRecvBusy
  \/ WorkerDefault
  \/ WorkerAppend
  \/ WorkerFlush
  \/ WorkerEvalReply
  \/ WorkerReply

\* No queue and no queued set: the state of AsyncSpec's other variables.
QueueAbsent ==
  /\ QueueNew(0, FALSE)
  /\ nthreads = 1
  /\ QSetIdle

AsyncInit ==
  /\ \E c \in 0..MaxChanCap : AsyncNew(c, TRUE)
  /\ subFails = {}
  /\ nfl \in 1..Cardinality(Flushers)
  /\ ncalls = MaxOps
  /\ QueueAbsent
  /\ RfaAbsent

\* One Flush caller beside the producers, and one call fewer in all.
AsyncFairInit ==
  /\ \E c \in 0..MaxChanCap : AsyncNew(c, TRUE)
  /\ subFails = {}
  /\ nfl = 1
  /\ ncalls = MaxOps - 1
  /\ QueueAbsent
  /\ RfaAbsent

\* A sub-appender that can fail, an errHandler or none, one Flush caller, and
\* one call fewer in all.
AsyncErrInit ==
  /\ \E c \in 0..MaxChanCap, eh \in BOOLEAN : AsyncNew(c, eh)
  /\ subFails = {"Append"}
  /\ nfl = 1
  /\ ncalls = MaxOps - 1
  /\ QueueAbsent
  /\ RfaAbsent

AsyncNext ==
  \/ \E p \in Producers : AsyncAppend(p) /\ UNCHANGED <<queueVars, qsetVars, rfaVars>>
  \/ \E p \in Producers : AppendSendWarning(p) /\ UNCHANGED <<queueVars, qsetVars, rfaVars>>
  \/ \E p \in Producers : AppendSendLog(p) /\ UNCHANGED <<queueVars, qsetVars, rfaVars>>
  \/ \E f \in Flushers : FlushCall(f) /\ UNCHANGED <<queueVars, qsetVars, rfaVars>>
  \/ \E f \in Flushers : FlushPost(f) /\ UNCHANGED <<queueVars, qsetVars, rfaVars>>
  \/ WorkerNext /\ UNCHANGED <<queueVars, qsetVars, rfaVars>>

AsyncSpec == AsyncInit /\ [][AsyncNext]_vars

\* The same appender over a sub-appender whose Append can return errors.
AsyncErrNext ==
  \/ AsyncNext
  \/ WorkerErrHandler /\ UNCHANGED <<queueVars, qsetVars, rfaVars>>

AsyncErrSpec == AsyncErrInit /\ [][AsyncErrNext]_vars

\* The appender with an errHandler over a sub-appender whose Append and
\* Flush can both return errors.
AsyncFlushErrInit ==
  /\ \E c \in 0..MaxChanCap : AsyncNew(c, TRUE)
  /\ subFails = {"Append", "Flush"}
  /\ nfl = 1
  /\ ncalls = MaxOps - 1
  /\ QueueAbsent
  /\ RfaAbsent

AsyncFlushErrSpec == AsyncFlushErrInit /\ [][AsyncErrNext]_vars

\* The scheduling the claims assume: the worker goroutine keeps running and
\* the sub-appender's calls return (weak fairness of the worker's steps); a
\* select with several ready cases picks among them at random, so the append
\* case is not passed over forever (strong fairness of WorkerRecvIdle); a
\* producer inside Append keeps running.
AsyncFairSpec ==
  /\ AsyncFairInit
  /\ [][AsyncNext]_vars
  /\ WF_vars(WorkerNext /\ UNCHANGED <<queueVars, qsetVars, rfaVars>>)
  /\ SF_vars(WorkerRecvIdle /\ UNCHANGED <<queueVars, qsetVars, rfaVars>>)
  /\ \A p \in Producers :
       WF_vars((AppendSendWarning(p) \/ AppendSendLog(p)) /\ UNCHANGED <<queueVars, qsetVars, rfaVars>>)

\* One or two Flush callers beside the producers, one call fewer in all, and
\* the scheduling of AsyncFairSpec with the Flush callers kept running too: a
\* caller at line 56 or 58 gets to execute its send.
AsyncFlushFairInit ==
  /\ \E c \in 0..MaxChanCap : AsyncNew(c, TRUE)
  /\ subFails = {}
  /\ nfl \in 1..Cardinality(Flushers)
  /\ ncalls = MaxOps - 1
  /\ QueueAbsent
  /\ RfaAbsent

AsyncFlushFairSpec ==
  /\ AsyncFlushFairInit
  /\ [][AsyncNext]_vars
  /\ WF_vars(WorkerNext /\ UNCHANGED <<queueVars, qsetVars, rfaVars>>)
  /\ SF_vars(WorkerRecvIdle /\ UNCHANGED <<queueVars, qsetVars, rfaVars>>)
  /\ \A p \in Producers :
       WF_vars((AppendSendWarning(p) \/ AppendSendLog(p)) /\ UNCHANGED <<queueVars, qsetVars, rfaVars>>)
  /\ \A f \in Flushers :
       WF_vars(FlushPost(f) /\ UNCHANGED <<queueVars, qsetVars, rfaVars>>)

(***************************************************************************)
(* v2/slogger/rolling_file_appender/rolling_file_appender.go               *)
(*                                                                         *)
(* Append, Rotate and Reopen hold self.lock from their first to their last *)
(* statement, so each call is one step. The files are the file at absPath  *)
(* (a sequence of written entries), the rotated files (their contents by    *)
(* name: the second of the rotation, the serial number, and whether the    *)
(* name ends in .gz), the hidden state file, and the file another process  *)
(* has renamed away from absPath while self.file was open on it (self.file *)
(* is then "moved": writes through it go to that file). The argument f of  *)
(* an operation names the file operation that fails during the call, if    *)
(* any.                                                                    *)
(***************************************************************************)
NoState == -1        \* self.state == nil
NoSidecar == -1      \* no state file on disk

\* What a file holds: log records, header lines, an earlier run's bytes,
\* the written part of a record whose write failed.
LogRec(id, n) == [k |-> "rec", id |-> id, n |-> n]
Hdr == [k |-> "hdr", id |-> 0, n |-> HdrLen]
OldBytes(n) == [k |-> "old", id |-> 0, n |-> n]
NoEntry == [k |-> "none", id |-> 0, n |-> 0]

\* fileInfo.Size()
RECURSIVE FileSize(_)
FileSize(c) == IF c = <<>> THEN 0 ELSE Head(c).n + FileSize(Tail(c))

Missing == [exists |-> FALSE, content |-> <<>>]
Existing(c) == [exists |-> TRUE, content |-> c]

\* The appender and the files as one value, with the error of the call made.
World == [file |-> rfa.file, curFileSize |-> rfa.curFileSize, state |-> rfa.state,
          active |-> fs.active, rotated |-> fs.rotated, sidecar |-> fs.sidecar,
          moved |-> fs.moved,
          err |-> "nil"]

\* rotatedFilename: the time formatted to the second, and -serial if serial > 0.
rotatedFilename(t, serial) == <<t \div TicksPerSec, serial, FALSE>>
\* logpath + ".gz"
GzName(nm) == <<nm[1], nm[2], TRUE>>

\* extractRotationTimeFromFilename succeeds on the names that end with the
\* time and the optional serial: rotatedTimeRegExp is anchored with $.
MatchesRotatedTime(nm) == ~nm[3]

\* rotationTimeSlice: the names under absPath.* that parse.
rotationTimeSlice(w) == {nm \in DOMAIN w.rotated : MatchesRotatedTime(nm)}

\* RotationTimeSlice.Less
Less(a, b) == IF a[1] = b[1] THEN a[2] < b[2] ELSE a[1] < b[1]

\* The first k names of S after sort.Sort.
Oldest(S, k) == {x \in S : Cardinality({y \in S : Less(y, x)}) < k}

\* WriteString on self.file: the bytes go to the file the handle was opened
\* on, which is the file at absPath unless that file was renamed since.
WriteTo(w, es) ==
  IF w.file = "moved" THEN [w EXCEPT !.moved.content = @ \o es]
  ELSE [w EXCEPT !.active.content = @ \o es]

\* An appendSansSizeTracking that drops the log without a word when there
\* is no file.
NoFileDropped(w) == [w |-> w, n |-> 0, err |-> "nil"]

\* appendSansSizeTracking, lines 342-344: self.file == nil.
NoFileResult(w) == [w |-> w, n |-> 0, err |-> "NoFileError"]

\* appendSansSizeTracking: the formatted log is written to self.file. A
\* write that fails has written all but the last byte.
appendSansSizeTracking(w, e, f) ==
  IF w.file = "nil"
    THEN NoFileResult(w)
  ELSE IF w.file = "closed"
    THEN [w |-> w, n |-> 0, err |-> "WriteError"]
  ELSE IF f = "write"
    THEN [w |-> WriteTo(w, IF e.n > 1 THEN <<[k |-> "part", id |-> e.id, n |-> e.n - 1]>>
                                      ELSE <<>>),
          n |-> e.n - 1, err |-> "WriteError"]
  ELSE [w |-> WriteTo(w, <<e>>), n |-> e.n, err |-> "nil"]

\* logHeader: the header lines are written with appendSansSizeTracking, up to
\* the first one that fails; curFileSize is not touched.
RECURSIVE logHeaderLines(_, _, _)
logHeaderLines(w, lines, f) ==
  IF lines = 0 THEN [w EXCEPT !.err = "nil"]
  ELSE LET r == appendSansSizeTracking(w, Hdr, IF f = "header" THEN "write" ELSE "none")
       IN  IF r.err /= "nil" THEN [r.w EXCEPT !.err = r.err]
           ELSE logHeaderLines(r.w, lines - 1, f)

\* A logHeader that adds the header's bytes to curFileSize.
logHeaderCounted(w, f) ==
  LET r == logHeaderLines(w, rfaCfg.header, f)
  IN  [r EXCEPT !.curFileSize = @ + FileSize(r.active.content) - FileSize(w.active.content)]

logHeader(w, f) == logHeaderLines(w, rfaCfg.header, f)

\* renameLogFile, lines 419-429: the serials from 0 to MAX_ROTATE_SERIAL_NUM
\* whose name os.Stat does not find.
FreeSerials(w, t) ==
  {s \in 0..MAX_ROTATE_SERIAL_NUM : rotatedFilename(t, s) \notin DOMAIN w.rotated}

\* A search that ends on the last free serial.
LastFreeSerial(w, t) ==
  CHOOSE s \in FreeSerials(w, t) : \A r \in FreeSerials(w, t) : r <= s

\* The serial the loop ends on: the first free one.
FreeSerial(w, t) ==
  CHOOSE s \in FreeSerials(w, t) : \A r \in FreeSerials(w, t) : s <= r

PutFile(files, nm, c) == [x \in DOMAIN files \cup {nm} |-> IF x = nm THEN c ELSE files[x]]
RemoveFiles(files, D) == [x \in DOMAIN files \ D |-> files[x]]

renameLogFile(w, t, f) ==
  IF FreeSerials(w, t) = {} \/ f = "rename" \/ ~w.active.exists
    THEN [w EXCEPT !.err = "RenameError"]
    ELSE [w EXCEPT !.rotated = PutFile(@, rotatedFilename(t, FreeSerial(w, t)), w.active.content),
                   !.active = Missing,
                   !.err = "nil"]

\* A stampStartTime that writes the state file and keeps the old self.state.
stampKeepsEpoch(w, t, f) ==
  IF f = "stamp" THEN [w EXCEPT !.err = "OpenError"]
  ELSE [w EXCEPT !.sidecar = t, !.err = "nil"]

\* stampStartTime: newState(time.Now()) is written to the state file and
\* becomes self.state.
stampStartTime(w, t, f) ==
  IF f = "stamp" THEN [w EXCEPT !.err = "OpenError"]
  ELSE [w EXCEPT !.state = t, !.sidecar = t, !.err = "nil"]

\* compressLogFile on each name of D: logpath.gz is created with the file's
\* content (replacing what was there) and logpath is removed.
CompressFiles(files, D) ==
  [x \in (DOMAIN files \ D) \cup {GzName(nm) : nm \in D} |->
     IF \E nm \in D : x = GzName(nm)
       THEN files[CHOOSE nm \in D : x = GzName(nm)]
       ELSE files[x]]

\* compressMaxUncompressedLogs: all but the newest maxUncompressedLogs of the
\* names that parse and do not end in .gz are compressed, oldest first.
compressMaxUncompressedLogs(w, f) ==
  IF rfaCfg.maxUncompressedLogs < 0 THEN [w EXCEPT !.err = "nil"]
  ELSE LET U == {nm \in rotationTimeSlice(w) : ~nm[3]}
           numLogsToCompress == Cardinality(U) - rfaCfg.maxUncompressedLogs
       IN  IF numLogsToCompress <= 0 THEN [w EXCEPT !.err = "nil"]
           ELSE IF f = "compress" THEN [w EXCEPT !.err = "MinorRotationError"]
           ELSE [w EXCEPT !.rotated = CompressFiles(@, Oldest(U, numLogsToCompress)),
                          !.err = "nil"]

\* removeMaxRotatedLogs, lines 402-403: rotationTimes[:numLogsToDelete] after
\* the sort.
LogsToDelete(S, k) == Oldest(S, k)

\* removeMaxRotatedLogs
removeMaxRotatedLogs(w, f) ==
  IF rfaCfg.maxRotatedLogs <= 0 THEN [w EXCEPT !.err = "nil"]
  ELSE LET rotationTimes == rotationTimeSlice(w)
           numLogsToDelete == Cardinality(rotationTimes) - rfaCfg.maxRotatedLogs
       IN  IF numLogsToDelete <= 0 THEN [w EXCEPT !.err = "nil"]
           ELSE IF f = "remove" THEN [w EXCEPT !.err = "MinorRotationError"]
           ELSE [w EXCEPT !.rotated = RemoveFiles(@, LogsToDelete(rotationTimes, numLogsToDelete)),
                          !.err = "nil"]

\* rotate: close, rename, create, header, stamp, compress, prune. The results
\* of logHeader and of removeMaxRotatedLogs are not looked at. A Close that
\* fails has released the descriptor all the same: the handle is closed.
rotate(w, t, f) ==
  IF w.file /= "nil" /\ (f = "close" \/ w.file = "closed")
    THEN [w EXCEPT !.file = "closed", !.err = "CloseError"]
  ELSE
    LET w1 == [w EXCEPT !.file = IF @ = "nil" THEN "nil" ELSE "closed",
                        !.curFileSize = 0]
        w2 == renameLogFile(w1, t, f)
        w3 == [w2 EXCEPT !.file = "open", !.active = Existing(<<>>)]
        w4 == logHeader(w3, f)
        w5 == stampStartTime(w4, t, f)
        w6 == IF rfaCfg.compressRotatedLogs
                THEN compressMaxUncompressedLogs(w5, f)
                ELSE w5
    IN  IF w2.err /= "nil" THEN w2
        ELSE IF f = "create" THEN [w2 EXCEPT !.file = "nil", !.err = "OpenError"]
        ELSE IF w5.err /= "nil" THEN w5
        ELSE IF w6.err /= "nil" THEN w6
        ELSE [removeMaxRotatedLogs(w6, f) EXCEPT !.err = "nil"]

\* Append, line 234: the size trigger.
SizeTrigger(w) == rfaCfg.maxFileSize > 0 /\ w.curFileSize > rfaCfg.maxFileSize

\* Append, lines 235-237: the duration trigger.
DurationTrigger(w, t) ==
  rfaCfg.maxDuration > 0 /\ w.state /= NoState /\ t - w.state > rfaCfg.maxDuration

\* An Append that rotates on the size trigger alone.
ShouldRotateSizeOnly(w, t) == SizeTrigger(w)

ShouldRotate(w, t) == SizeTrigger(w) \/ DurationTrigger(w, t)

\* The appender and the files after a call.
Becomes(w) ==
  /\ rfa' = [file |-> w.file, curFileSize |-> w.curFileSize, state |-> w.state]
  /\ fs' = [active |-> w.active, rotated |-> w.rotated, sidecar |-> w.sidecar,
            moved |-> w.moved]

Built == rfa.file /= "none"
CanCall(f) == Built /\ rfaLast.ops < MaxRfaOps /\ f \in faults \cup {"none"}

Called(op, err, rot, rec, f) ==
  rfaLast' = [op |-> op, err |-> err, rot |-> rot, rec |-> rec, fault |-> f, at |-> now,
              ops |-> rfaLast.ops + 1,
              recs |-> rfaLast.recs + (IF op = "Append" THEN 1 ELSE 0)]

\* Append(log), n being the length of the formatted log.
RfaAppend(n, f) ==
  /\ CanCall(f)
  /\ LET e == LogRec(rfaLast.recs + 1, n)
         r == appendSansSizeTracking(World, e, f)
         w1 == [r.w EXCEPT !.curFileSize = @ + r.n]
         rot == r.err = "nil" /\ ShouldRotate(w1, now)
         w2 == IF r.err /= "nil" THEN [w1 EXCEPT !.err = r.err]
               ELSE IF rot THEN rotate(w1, now, f)
               ELSE [w1 EXCEPT !.err = "nil"]
     IN  /\ Becomes(w2)
         /\ Called("Append", w2.err, IF rot THEN 1 ELSE 0, e, f)
  /\ UNCHANGED <<rfaCfg, now, faults>>

\* Rotate()
RfaRotate(f) ==
  /\ CanCall(f)
  /\ LET w == rotate(World, now, f)
     IN  /\ Becomes(w)
         /\ Called("Rotate", w.err, 1, NoEntry, f)
  /\ UNCHANGED <<rfaCfg, now, faults>>

\* A Reopen that keeps the size counted so far.
ReopenSizeKept(w) == w.curFileSize

\* Reopen, lines 296-301: the size os.Stat gives for absPath, 0 without a file.
ReopenSize(w) == IF w.active.exists THEN FileSize(w.active.content) ELSE 0

\* Reopen(): sync and close the handle, take the size of the file at
\* absPath, open or create it, write the header, stamp, prune.
reopen(w, t, f) ==
  IF w.file /= "nil" /\ (f = "sync" \/ w.file = "closed")
    THEN [w EXCEPT !.err = "SyncError"]
  ELSE IF w.file /= "nil" /\ f = "close"
    THEN [w EXCEPT !.file = "closed", !.err = "CloseError"]
  ELSE
    LET w1 == [w EXCEPT !.file = IF @ = "nil" THEN "nil" ELSE "closed",
                        !.curFileSize = ReopenSize(w)]
        w2 == [w1 EXCEPT !.file = "open", !.active = Existing(w.active.content)]
        w3 == logHeader(w2, f)
        w4 == stampStartTime(w3, t, f)
    IN  IF f = "create" THEN [w1 EXCEPT !.file = "nil", !.err = "OpenError"]
        ELSE IF w4.err /= "nil" THEN w4
        ELSE [removeMaxRotatedLogs(w4, f) EXCEPT !.err = "nil"]

RfaReopen(f) ==
  /\ CanCall(f)
  /\ LET w == reopen(World, now, f)
     IN  /\ Becomes(w)
         /\ Called("Reopen", w.err, 0, NoEntry, f)
  /\ UNCHANGED <<rfaCfg, now, faults>>

\* Time passes before Build and between the calls.
RfaTick ==
  /\ rfaCfg /= <<>>
  /\ now < MaxTime
  /\ rfaLast.ops < MaxRfaOps
  /\ now' = now + 1
  /\ UNCHANGED <<rfaCfg, rfa, fs, faults, rfaLast>>

\* A loadState that reads nothing.
loadStateSkipped(w, f) == [w EXCEPT !.err = "nil"]

\* loadState: readState(statePath) becomes self.state.
loadState(w, f) ==
  IF f = "load" THEN [w EXCEPT !.err = "DecodeError"]
  ELSE [w EXCEPT !.state = w.sidecar, !.err = "nil"]

\* A Build that rotates whatever is at absPath.
BuildRotatesAlways(exists, rotateIfExists) == exists

\* Build, line 173: err == nil && b.rotateIfExists
BuildRotates(exists, rotateIfExists) == exists /\ rotateIfExists

\* Build: with rotateIfExists and a file at absPath the appender is returned
\* with the result of rotate; otherwise the file is opened or created, the
\* state is loaded or stamped and the header written, and a failure before
\* the header returns no appender.
RfaBuild(f) ==
  /\ rfaLast.op = "start"
  /\ f \in faults \cup {"none"}
  /\ LET w0 == [World EXCEPT !.file = "nil", !.curFileSize = 0, !.state = NoState]
         w1 == [w0 EXCEPT !.file = "open",
                          !.active = Existing(w0.active.content),
                          !.curFileSize = IF w0.active.exists
                                            THEN FileSize(w0.active.content) ELSE 0]
         w2 == IF w1.sidecar /= NoSidecar
                 THEN loadState(w1, f)
                 ELSE stampStartTime(w1, now, f)
         w3 == logHeader(w2, f)
         rot == BuildRotates(fs.active.exists, rfaCfg.rotateIfExists)
         w == IF rot THEN rotate(w0, now, f)
              ELSE IF f = "create" THEN [w0 EXCEPT !.file = "none", !.err = "OpenError"]
              ELSE IF w2.err /= "nil" THEN [w2 EXCEPT !.file = "none", !.state = NoState,
                                                      !.curFileSize = 0]
              ELSE w3
     IN  /\ Becomes(w)
         /\ rfaLast' = [rfaLast EXCEPT !.op = "Build", !.err = w.err,
                                       !.rot = IF rot THEN 1 ELSE 0, !.fault = f,
                                       !.at = now]
  /\ UNCHANGED <<rfaCfg, now, faults>>

\* The configurations, and what is at the path before Build.
FileSizes == {0, 1}
Durations == {-1, 1}
RotatedLimits == {0, 1}
Compression == {<<FALSE, 0>>, <<TRUE, 0>>}

\* The file operations that can fail in each call.
WriteFaults == {"write"}
RotateFaults == {"close", "rename", "create", "header", "stamp", "compress", "remove"}
AppendFaults == WriteFaults \cup RotateFaults
ReopenFaults == {"sync", "close", "create", "header", "stamp", "remove"}
BuildFaults == RotateFaults \cup {"load"}

RfaStart(fl) ==
  /\ \E size \in FileSizes, dur \in Durations, m \in RotatedLimits,
        c \in Compression, h \in {0, MaxHeader}, r \in BOOLEAN :
       rfaCfg = [maxFileSize |-> size, maxDuration |-> dur, maxRotatedLogs |-> m,
                 rotateIfExists |-> r,
                 compressRotatedLogs |-> c[1], maxUncompressedLogs |-> c[2],
                 header |-> h]
  /\ rfa = NoAppender
  /\ \E a \in {Missing, Existing(<<OldBytes(MaxRecLen)>>)},
        sc \in {NoSidecar, 0} :
       fs = [active |-> a, rotated |-> <<>>, sidecar |-> sc, moved |-> Missing]
  /\ now = 0
  /\ faults = fl
  /\ gz = NoCompression
  /\ rfaLast = [op |-> "start", err |-> "nil", rot |-> 0, rec |-> NoEntry,
                fault |-> "none", at |-> 0, ops |-> 0, recs |-> 0]
  /\ QueueAbsent
  /\ AsyncAbsent

\* A filesystem on which only the write of a record can fail.
RfaInit == RfaStart(WriteFaults)

RfaNext ==
  \/ \E f \in BuildFaults \cup {"none"} :
       RfaBuild(f) /\ UNCHANGED <<queueVars, qsetVars, asyncVars, gz>>
  \/ \E n \in {1, MaxRecLen}, f \in AppendFaults \cup {"none"} :
       RfaAppend(n, f) /\ UNCHANGED <<queueVars, qsetVars, asyncVars, gz>>
  \/ \E f \in RotateFaults \cup {"none"} :
       RfaRotate(f) /\ UNCHANGED <<queueVars, qsetVars, asyncVars, gz>>
  \/ \E f \in ReopenFaults \cup {"none"} :
       RfaReopen(f) /\ UNCHANGED <<queueVars, qsetVars, asyncVars, gz>>
  \/ RfaTick /\ UNCHANGED <<queueVars, qsetVars, asyncVars, gz>>

RfaSpec == RfaInit /\ [][RfaNext]_vars

\* The file operations of rotate and of Reopen that can fail, the write of
\* a header line aside.
AllFaults == (RotateFaults \cup ReopenFaults) \ {"header"}

\* A new log (no file at absPath, no state file, no header) on a filesystem
\* on which one kind of file operation fails, in any of the calls or in none.
RfaFaultInit ==
  /\ \E f \in AllFaults : RfaStart({f})
  /\ rfaCfg.header = 0
  /\ ~rfaCfg.rotateIfExists
  /\ ~fs.active.exists
  /\ fs.sidecar = NoSidecar

RfaFaultSpec == RfaFaultInit /\ [][RfaNext]_vars

\* A file at absPath that Build is to rotate (rotateIfExists), no header, on
\* a filesystem on which one kind of file operation of rotate fails, in any
\* of the calls or in none.
RfaBuildFaultInit ==
  /\ \E f \in RotateFaults \ {"header"} : RfaStart({f})
  /\ rfaCfg.rotateIfExists
  /\ rfaCfg.header = 0
  /\ fs.active.exists

RfaBuildFaultSpec == RfaBuildFaultInit /\ [][RfaNext]_vars

\* Another process (logrotate) renames the file at absPath while the appender
\* has it open: the handle stays on the renamed file.
ExtRename ==
  /\ rfa.file = "open"
  /\ fs.active.exists
  /\ ~fs.moved.exists
  /\ rfaLast.ops < MaxRfaOps
  /\ rfa' = [rfa EXCEPT !.file = "moved"]
  /\ fs' = [fs EXCEPT !.moved = fs.active, !.active = Missing]
  /\ UNCHANGED <<rfaCfg, now, faults, rfaLast>>

\* An appender without compression on a filesystem where nothing fails.
RfaExtInit == RfaStart({}) /\ ~rfaCfg.compressRotatedLogs

RfaExtNext ==
  \/ RfaNext
  \/ ExtRename /\ UNCHANGED <<queueVars, qsetVars, asyncVars, gz>>

RfaExtSpec == RfaExtInit /\ [][RfaExtNext]_vars

(***************************************************************************)
(* compressLogFile, statement by statement (lines 471-517). The rotated    *)
(* file logpath has a length and a modification time; logpath.gz may be    *)
(* there already. Each statement succeeds or fails; a failure returns, and *)
(* the deferred Close calls close the handles that are open.               *)
(***************************************************************************)
\* The statements that can fail, in the order of the code.
StepsRemoveEarly ==
  <<"open", "stat", "create", "copy", "remove", "gzclose", "close", "srcclose", "chtimes">>

Steps ==
  <<"open", "stat", "create", "copy", "gzclose", "close", "srcclose", "chtimes", "remove">>

StepAfter(p) ==
  LET i == CHOOSE j \in 1..Len(Steps) : Steps[j] = p
  IN  IF i = Len(Steps) THEN "done" ELSE Steps[i + 1]

NoCopy == [exists |-> FALSE, bytes |-> 0, complete |-> FALSE, mtime |-> 0]

\* return fmt.Errorf(...): the deferred Close calls run.
GzFailed(g, err) ==
  [g EXCEPT !.pc = "failed", !.err = err,
            !.src = IF @ = "open" THEN "closed" ELSE @,
            !.outHandle = IF @ = "open" THEN "closed" ELSE @]

GzStep(p, ok, g) ==
  /\ gz.pc = p
  /\ gz' = IF ok THEN [g EXCEPT !.pc = StepAfter(p)] ELSE GzFailed(gz, p)

\* f, err := os.Open(logpath)
GzOpen(ok) == GzStep("open", ok, [gz EXCEPT !.src = "open"])

\* info, err := os.Stat(logpath)
GzStat(ok) == GzStep("stat", ok, [gz EXCEPT !.info = gz.mtime])

\* compressedF, err := os.Create(logpath + ".gz"): what was there is truncated.
GzCreate(ok) ==
  GzStep("create", ok,
         [gz EXCEPT !.out = [exists |-> TRUE, bytes |-> 0, complete |-> FALSE, mtime |-> gz.t],
                    !.outHandle = "open"])

\* io.Copy(gzipWriter, f): a copy that fails has written all but the last byte.
GzCopy(ok) ==
  /\ gz.pc = "copy"
  /\ gz' = IF ok THEN [gz EXCEPT !.pc = StepAfter("copy"), !.out.bytes = gz.len]
            ELSE GzFailed([gz EXCEPT !.out.bytes = IF gz.len > 0 THEN gz.len - 1 ELSE 0], "copy")

\* gzipWriter.Close(): the rest of the stream and the trailer are written.
GzWriterClose(ok) ==
  GzStep("gzclose", ok, [gz EXCEPT !.out.complete = (gz.out.bytes = gz.len)])

\* compressedF.Close()
GzFileClose(ok) == GzStep("close", ok, [gz EXCEPT !.outHandle = "closed"])

\* f.Close()
GzSrcClose(ok) == GzStep("srcclose", ok, [gz EXCEPT !.src = "closed"])

\* os.Chtimes(compressedF.Name(), time.Now(), info.ModTime())
GzChtimes(ok) == GzStep("chtimes", ok, [gz EXCEPT !.out.mtime = gz.info])

\* os.Remove(logpath)
GzRemove(ok) == GzStep("remove", ok, [gz EXCEPT !.orig = FALSE])

\* compressLogFile(logpath) is called at time t on a file of len bytes last
\* modified at mtime, with or without a logpath.gz from before.
GzInit ==
  /\ \E len \in 0..MaxRecLen, mtime \in 0..MaxTime, t \in 0..MaxTime, before \in BOOLEAN :
       /\ mtime <= t
       /\ gz = [pc |-> Steps[1], err |-> "nil", len |-> len, mtime |-> mtime, t |-> t,
                info |-> NoState, orig |-> TRUE, src |-> "nil", outHandle |-> "nil",
                out |-> IF before
                          THEN [exists |-> TRUE, bytes |-> MaxRecLen, complete |-> TRUE,
                                mtime |-> mtime]
                          ELSE NoCopy]
  /\ AppenderAbsent
  /\ QueueAbsent
  /\ AsyncAbsent

GzNext ==
  \/ \E ok \in BOOLEAN : GzOpen(ok) /\ UNCHANGED <<queueVars, qsetVars, asyncVars, rfaCfg, rfa, fs, now, faults, rfaLast>>
  \/ \E ok \in BOOLEAN : GzStat(ok) /\ UNCHANGED <<queueVars, qsetVars, asyncVars, rfaCfg, rfa, fs, now, faults, rfaLast>>
  \/ \E ok \in BOOLEAN : GzCreate(ok) /\ UNCHANGED <<queueVars, qsetVars, asyncVars, rfaCfg, rfa, fs, now, faults, rfaLast>>
  \/ \E ok \in BOOLEAN : GzCopy(ok) /\ UNCHANGED <<queueVars, qsetVars, asyncVars, rfaCfg, rfa, fs, now, faults, rfaLast>>
  \/ \E ok \in BOOLEAN : GzWriterClose(ok) /\ UNCHANGED <<queueVars, qsetVars, asyncVars, rfaCfg, rfa, fs, now, faults, rfaLast>>
  \/ \E ok \in BOOLEAN : GzFileClose(ok) /\ UNCHANGED <<queueVars, qsetVars, asyncVars, rfaCfg, rfa, fs, now, faults, rfaLast>>
  \/ \E ok \in BOOLEAN : GzSrcClose(ok) /\ UNCHANGED <<queueVars, qsetVars, asyncVars, rfaCfg, rfa, fs, now, faults, rfaLast>>
  \/ \E ok \in BOOLEAN : GzChtimes(ok) /\ UNCHANGED <<queueVars, qsetVars, asyncVars, rfaCfg, rfa, fs, now, faults, rfaLast>>
  \/ \E ok \in BOOLEAN : GzRemove(ok) /\ UNCHANGED <<queueVars, qsetVars, asyncVars, rfaCfg, rfa, fs, now, faults, rfaLast>>

GzSpec == GzInit /\ [][GzNext]_vars

(***************************************************************************)
(* Claims about the queue (QueueSpec, QueueFairSpec).                      *)
(***************************************************************************)
\* The sequential use of C5: one goroutine, a callback, capacity >= 1, and no
\* Enqueue after a Dequeue; the goroutine is between calls.
SequentialEnqueues ==
  /\ nthreads = 1
  /\ hasCb
  /\ qcap >= 1
  /\ ~enqAfterDeq
  /\ qpc[1] = "idle"

\* C5: after N sequential Enqueue calls into a queue of capacity C >= 1 with no
\* Dequeue in between, onForcedDequeue has been called exactly max(N-C, 0)
\* times, its i-th call got the i-th enqueued item, and what Dequeue has
\* returned since followed by what is still queued is exactly the last
\* min(N, C) enqueued items in arrival order.
C5_SequentialOverflow ==
  SequentialEnqueues =>
    LET N == nextItem - 1
        E == Max(N - qcap, 0)
    IN  /\ evicted = Interval(1, E)
        /\ dequeued \o items = Interval(E + 1, N)

\* C5's case: 3 enqueues into capacity 2, one eviction, then a full drain.
C5_Witness ==
  /\ SequentialEnqueues
  /\ qcap = 2
  /\ nextItem = 4
  /\ evicted = <<1>>
  /\ dequeued = <<2, 3>>
  /\ items = <<>>

\* C6: a single-threaded Enqueue call, for every capacity >= 0, returns after
\* finitely many steps with its item stored in the queue.
C6_EnqueueReturns ==
  (nthreads = 1 /\ qpc[1] = "enq_send")
     ~> (qpc[1] = "idle" /\ qitem[1] \in Range(items))

\* What Dequeue has returned followed by what is still queued.
Drained == dequeued \o items

\* The position of item x in the sequence s (0 when it is not there).
PositionIn(s, x) == IF x \in Range(s) THEN CHOOSE i \in 1..Len(s) : s[i] = x ELSE 0

C12_DequeueStep ==
  \A t \in Threads :
    Dequeue(t) =>
      IF Len(items) = 0
        THEN /\ qret'[t] = [item |-> Nil, err |-> "UnderflowError"]
             /\ items' = items
        ELSE /\ qret'[t] = [item |-> Head(items), err |-> "nil"]
             /\ Len(items') = Len(items) - 1
             /\ items' = Tail(items)

C12_DequeueContract ==
  /\ [](\A t \in Active : qpc[t] = "idle" => ENABLED Dequeue(t))
  /\ [][C12_DequeueStep]_vars

\* C12's case: a goroutine got an item, then drained the queue of two and
\* underflowed.
C12_Witness ==
  /\ Len(dequeued) = 2
  /\ items = <<>>
  /\ \E t \in Active : qret[t].err = "UnderflowError"

\* C34: an Enqueue call takes an item out of the queue (to hand it to
\* onForcedDequeue) only in a step in which the queue is full.
C34_Step ==
  \A t \in Active :
    (hasCb /\ qpc[t] = "enq_recv" /\ qpc'[t] = "enq_cb")
      => Len(items) = qcap

C34_EvictOnlyWhenFull == [][C34_Step]_vars

\* C35: with a capacity of at least 1, every Enqueue call returns, whatever
\* the other goroutines' Enqueue and Dequeue calls do in between (the calls
\* being finitely many, from some moment on no goroutine is inside one); and a
\* call goes round its loop again only after a step of another goroutine
\* (the send found the queue full, so the receive that follows finds an item
\* unless another goroutine has taken one; the send after a receive finds
\* room unless another goroutine has filled it).
C35_RetryStep ==
  \A t \in Active :
    /\ (qpc[t] = "enq_send" /\ qpc'[t] = "enq_recv") => Len(items) = qcap
    /\ (qpc[t] = "enq_recv" /\ qpc'[t] = "enq_send") => Len(items') < qcap \/ qcap = 0

C35_EnqueueTerminates ==
  /\ <>[](\A t \in Active : qpc[t] = "idle")
  /\ [][C35_RetryStep]_vars

\* C35's case: two goroutines' Enqueue calls contended for a queue of
\* capacity 1, items were evicted, and all calls have returned.
C35_Witness ==
  /\ nthreads = 2
  /\ qcap = 1
  /\ nextItem - 1 = MaxEnq
  /\ \E i \in 1..Len(enqBy) : enqBy[i] = 2
  /\ \E i \in 1..Len(enqBy) : enqBy[i] = 1
  /\ \A t \in Active : qpc[t] = "idle"
  /\ Len(items) = 1
  /\ Len(dequeued) >= 1

\* The places an item can be in: in the queue, returned by a Dequeue, passed
\* to onForcedDequeue, and - inside a running Enqueue - the argument not yet
\* sent or the item received and not yet passed to the callback.
C39_Places ==
  items \o dequeued \o evicted
    \o SelectSeq([t \in 1..nthreads |-> IF qpc[t] = "idle" THEN Nil ELSE qitem[t]],
                 LAMBDA x : x /= Nil)
    \o SelectSeq([t \in 1..nthreads |-> IF qpc[t] = "enq_cb" THEN qheld[t] ELSE Nil],
                 LAMBDA x : x /= Nil)

\* C39: items are conserved. In every state the queue holds between 0 and
\* Cap items; with a callback, in every state of every interleaving of
\* Enqueue and Dequeue calls each item enqueued so far is in exactly one
\* place, and once all calls have returned these are the queue, the results
\* of Dequeue and the arguments of onForcedDequeue, so that
\* enqueued = Len + dequeued + evicted.
C39_ItemConservation ==
  /\ 0 <= QLen /\ QLen <= qcap
  /\ hasCb =>
       /\ \A x \in 1..(nextItem - 1) : Occurrences(C39_Places, x) = 1
       /\ Len(C39_Places) = nextItem - 1
       /\ (\A t \in Active : qpc[t] = "idle") =>
            /\ nextItem - 1 = QLen + Len(dequeued) + Len(evicted)
            /\ \A x \in 1..(nextItem - 1) :
                 Occurrences(items, x) + Occurrences(dequeued, x) + Occurrences(evicted, x) = 1

\* Two goroutines have returned from all their calls, with items in each
\* of the three places.
C39_Witness ==
  /\ hasCb
  /\ nthreads = 2
  /\ \A t \in Active : qpc[t] = "idle"
  /\ items /= <<>>
  /\ dequeued /= <<>>
  /\ evicted /= <<>>
  /\ enqAfterDeq

(***************************************************************************)
(* Claims about the log retainer (RetainerSpec).                           *)
(***************************************************************************)
\* C37: no sendLogsToAppender call has an error in its result, whatever the
\* other calls on the category do (a call whose Dequeue underflows because
\* another call emptied the queue returns without adding an error); no
\* retained log is given to the appender twice; and once the calls have
\* returned, every log taken from the queue has been given to the appender.
C37_DrainUnderUnderflow ==
  /\ \A t \in Active : retainer.errs[t] = 0
  /\ \A i, j \in 1..Len(retainer.sent) : i /= j => retainer.sent[i] /= retainer.sent[j]
  /\ (\A t \in Active : qpc[t] = "idle") => Range(retainer.sent) = Range(dequeued)

(***************************************************************************)
(* Claims about the queued set (QSetSpec).                                 *)
(***************************************************************************)
\* C7: between Add calls, for every key the count in the map equals the number
\* of occurrences of the key in the backing queue, a key is in the map iff its
\* count is > 0, and Contains is true iff an occurrence is still queued.
C7_CountInvariant ==
  lockW = 0 =>
    \A k \in Keys :
      /\ SetGet(set, k) = Occurrences(items, k)
      /\ (k \in DOMAIN set <=> SetGet(set, k) > 0)
      /\ (ContainsIn(set, k) <=> Occurrences(items, k) >= 1)

\* C8: between Add calls the number of keys Contains reports never exceeds
\* the capacity.
C8_BoundedMembership ==
  lockW = 0 => Cardinality({k \in Keys : ContainsIn(set, k)}) <= qcap

\* C9: when Add(k) returns, it returns true iff k was not contained when the
\* call took the lock, and Contains(k) is true at the return.
C9_AddResult ==
  [][\A t \in Threads :
       (qpc[t] = "add_store" /\ qpc'[t] = "idle") =>
          /\ qsRet'[t] = ~qsPre[t]
          /\ ContainsIn(set', qitem[t])]_vars

\* C9's case: an Add that returned false for a contained key after the queue
\* had already evicted.
C9_Witness ==
  \E t \in Active :
    /\ qpc[t] = "idle"
    /\ lockW = 0
    /\ Len(addLog) >= 2
    /\ addLog[Len(addLog)] = qitem[t]
    /\ qsPre[t]
    /\ ~qsRet[t]
    /\ Len(evicted) >= 1
    /\ ContainsIn(set, qitem[t])

\* C10, first part: after capacity+1 pairwise distinct keys were added to an
\* empty set, the first is not contained and the others are.
C10_DistinctKeys ==
  (/\ lockW = 0
   /\ qcap >= 1
   /\ Len(addLog) = qcap + 1
   /\ Cardinality(Range(addLog)) = qcap + 1)
  => /\ ~ContainsIn(set, addLog[1])
     /\ \A i \in 2..(qcap + 1) : ContainsIn(set, addLog[i])

\* C10, second part: when delete is called for an evicted key that has no
\* other occurrence in the queue, the key is not contained afterwards.
C10_LastOccurrence ==
  \A t \in Threads :
    (/\ qpc[t] = "enq_cb"
     /\ qpc'[t] = "enq_send"
     /\ Occurrences(items, qheld[t]) = 0)
    => ~ContainsIn(set', qheld[t])

\* C10: eviction of the oldest key removes its presence.
C10_EvictionRemovesKey == [](C10_DistinctKeys) /\ [][C10_LastOccurrence]_vars

\* The map and the queue after one Add of key k run alone on the map and
\* the queue of s (capacity >= 1).
AddAlone(s, k) ==
  LET count == SetGet(s.set, k)
      full == Len(s.items) >= qcap
      m == IF full THEN SetDelete(s.set, Head(s.items)) ELSE s.set
      q == IF full THEN Tail(s.items) ELSE s.items
  IN  [set |-> SetPut(m, k, count + 1), items |-> Append(q, k)]

\* The map and the queue after the Add calls of the keys of ks, one after
\* the other, on an empty set.
RECURSIVE AddsInTurn(_)
AddsInTurn(ks) ==
  IF ks = <<>> THEN [set |-> <<>>, items |-> <<>>]
  ELSE AddAlone(AddsInTurn(SubSeq(ks, 1, Len(ks) - 1)), ks[Len(ks)])

\* C33: whenever no Add call is in progress, the map and the backing queue
\* are those that the Add calls made so far give when run one after the
\* other in the order in which they returned; and the keys of one goroutine
\* stand in the queue in the order in which that goroutine added them.
C33_AddAtomic ==
  (qcap >= 1 /\ \A t \in Active : qpc[t] = "idle") =>
    /\ [set |-> set, items |-> items] = AddsInTurn(addLog)
    /\ \A i, j \in 1..Len(items) :
         (i < j /\ (items[i] - 1) % nthreads = (items[j] - 1) % nthreads)
           => items[i] <= items[j]

\* C33's case: two goroutines have added three keys to a set of capacity 2,
\* the second goroutine's key between the two keys of the first, and the
\* first key was evicted.
C33_Witness ==
  /\ nthreads = 2
  /\ qcap = 2
  /\ \A t \in Active : qpc[t] = "idle"
  /\ addLog = <<1, 2, 3>>
  /\ items = <<2, 3>>
  /\ DOMAIN set = {2, 3}

(***************************************************************************)
(* Claims about the asynchronous appender (AsyncSpec, AsyncFairSpec).      *)
(***************************************************************************)
\* The positions in subLog.
SubPositions == 1..Len(subLog)

\* The logs of producer p in subLog, in order.
FromProducer(p) == SelectSeq(subLog, LAMBDA e : e[1] = p)

\* C1: when a Flush call has returned, every record whose Append call had
\* returned before that Flush call began has been passed to the sub-appender's
\* Append, and the sub-appender's Flush was called after it.
C1_FlushGuarantee ==
  \A f \in Flushers :
    fpc[f] = "done" =>
      \A p \in Producers : \A i \in 1..fseen[f][p] :
        \E j \in 1..subFlushed : subLog[j] = Rec(p, i)

\* C1's case: a Flush that returned after records of both producers, one of
\* them submitted through a full channel, had been submitted before it began.
C1_Witness ==
  \E f \in Flushers :
    /\ fpc[f] = "done"
    /\ \A p \in Producers : fseen[f][p] >= 1
    /\ Warn \in Range(subLog)
    /\ \E g \in Flushers : g /= f /\ fpc[g] \in {"post", "postParked", "wait"}

\* C2: every record passed to Append is eventually passed to the
\* sub-appender's Append, and never more than once.
C2_NoSilentDrops ==
  /\ [](\A p \in Producers : \A i \in 1..MaxRecs : Occurrences(subLog, Rec(p, i)) <= 1)
  /\ \A p \in Producers : \A i \in 1..MaxRecs :
       (pn[p] >= i) ~> (Occurrences(subLog, Rec(p, i)) = 1)

\* C2's case: a record that found the channel full (its warning was written)
\* has reached the sub-appender.
C2_Witness ==
  \E j \in SubPositions :
    /\ subLog[j] = Warn
    /\ \E k \in SubPositions : k > j /\ subLog[k] /= Warn
    /\ \A p \in Producers : pn[p] >= 1 /\ Len(FromProducer(p)) = pn[p]

\* C3: the records of each producer reach the sub-appender in the order the
\* producer submitted them; and when a Flush has returned that began after
\* every submitted record's Append had returned, all of them are there.
C3_PerProducerFifo ==
  /\ \A p \in Producers :
       \A j \in 1..Len(FromProducer(p)) : FromProducer(p)[j] = Rec(p, j)
  /\ \A f \in Flushers :
       (fpc[f] = "done" /\ \A p \in Producers : fseen[f][p] = pn[p])
         => \A p \in Producers : Len(FromProducer(p)) = pn[p]

\* C3's case: both producers' records interleaved in the sub-appender, all
\* present after a Flush that began when the producers had finished.
C3_Witness ==
  /\ pn[1] = 2
  /\ pn[2] = 1
  /\ \E j \in SubPositions :
       subLog[j] = Rec(2, 1) /\ j > 1 /\ j < Len(subLog) /\ subLog[Len(subLog)] = Rec(1, 2)
  /\ \E f \in Flushers : fpc[f] = "done" /\ \A p \in Producers : fseen[f][p] = pn[p]

\* C4: Append never waits for the worker: no producer is ever parked in a
\* send on the append channel.
C4_AppendNeverBlocks ==
  \A p \in Producers : ppc[p] \notin {"warnParked", "logParked"}

\* The logs on their way to the sub-appender: held by the worker, buffered in
\* the channel, or held by a producer parked in its send.
InFlight == (IF wlog = NoLog THEN <<>> ELSE <<wlog>>) \o appendCh
              \o [i \in 1..Len(sendq) |-> sendq[i].log]

\* C13: each record whose Append found the channel full is preceded in the
\* sub-appender by a warning record of its own (in every prefix of what the
\* sub-appender received there are at least as many warnings as such
\* records), and the warnings in existence are exactly those sent by the
\* Append calls that found the channel full.
C13_WarningBeforeRecord ==
  /\ \A k \in SubPositions :
       Cardinality({j \in 1..k : subLog[j] \in fullRecs})
         <= Cardinality({j \in 1..k : subLog[j] = Warn})
  /\ Occurrences(subLog \o InFlight, Warn)
       = Cardinality(fullRecs) - Cardinality({p \in Producers : ppc[p] = "warn"})

\* C13's case: two records found the channel full, a third did not, and the
\* sub-appender has received all of them.
C13_Witness ==
  /\ Cardinality(fullRecs) = 2
  /\ fullRecs \subseteq Range(subLog)
  /\ \E p \in Producers : pn[p] >= 1 /\ Rec(p, 1) \in Range(subLog) \ fullRecs

\* C14: the errors passed to errHandler are exactly the errors the
\* sub-appender's Append returned, each once and in order (the one being
\* handed over excepted); without an errHandler none is passed; and Append
\* returns nil to the producers.
C14_ErrorsToHandler ==
  /\ Range(handled) = IF hasEh
                        THEN errs \ (IF wpc = "errh" THEN {Len(subLog)} ELSE {})
                        ELSE {}
  /\ \A i, j \in 1..Len(handled) : i < j => handled[i] < handled[j]
  /\ wpc = "errh" => Len(subLog) \in errs
  /\ \A p \in Producers : Returned(p) > 0 => AppendResult = "nil"

\* C14's case: of three logs the sub-appender failed on two, and errHandler
\* has got both errors.
C14_Witness ==
  /\ hasEh
  /\ Len(subLog) = 3
  /\ Len(handled) = 2
  /\ Cardinality(errs) = 2

\* Flush caller f is inside a Flush call that follows a returned Flush call
\* of its own, no Append call being in progress or made since that earlier
\* call began.
InSecondFlush(f) ==
  /\ fsecond[f]
  /\ fseen[f] = pn
  /\ fpc[f] \in {"post", "postParked", "wait"}

\* C15: during the second of two Flush calls in a row nothing is on its way
\* to the sub-appender, the worker is in neither of the sub-appender's
\* calls and makes none, the worker's reply is true, and Flush returns nil.
C15_SecondFlushState ==
  /\ \A f \in Flushers :
       InSecondFlush(f) =>
         /\ InFlight = <<>>
         /\ wpc \notin {"append", "flush", "errh"}
         /\ ~needsFlush
         /\ (wpc = "reply" /\ wto = f) => wval
  /\ \A f \in Flushers : fpc[f] = "done" => FlushResult = "nil"

C15_SecondFlushStep ==
  (\E f \in Flushers : InSecondFlush(f)) =>
     (subLog' = subLog /\ subFlushed' = subFlushed)

C15_FlushIdempotent ==
  /\ [](C15_SecondFlushState)
  /\ [][C15_SecondFlushStep]_vars

\* C15's case: after two records were written and flushed, a caller's second
\* Flush call in a row has returned.
C15_Witness ==
  \E f \in Flushers :
    /\ fsecond[f]
    /\ fn[f] = 2
    /\ fpc[f] = "done"
    /\ fseen[f] = pn
    /\ Len(subLog) >= 2
    /\ subFlushed = Len(subLog)

\* C31: the worker holds a Flush request, and replies, only with needsFlush
\* false (the sub-appender's Flush covered everything it was given, or it
\* was given nothing), and holds no log then; the value it replies is true
\* iff no log is buffered in the append channel when it evaluates line 103;
\* a Flush caller waiting for its reply moves on only by receiving it, back
\* to posting its own reply channel on false and to the return on true; and
\* no Flush call returns in any other way.
C31_ReplyState ==
  wpc \in {"gotFlush", "reply"} =>
    /\ ~needsFlush
    /\ subFlushed = Len(subLog)
    /\ wlog = NoLog
    /\ wto \in Flushers
    /\ fpc[wto] = "wait"

C31_ReplyStep ==
  /\ (wpc = "gotFlush" /\ wpc' = "reply") => (wval' <=> Len(appendCh) = 0)
  /\ \A f \in Flushers :
       /\ (fpc[f] = "wait" /\ fpc'[f] /= "wait")
            => /\ wpc = "reply"
               /\ wto = f
               /\ fpc'[f] = IF wval THEN "done" ELSE "post"
       /\ (fpc[f] /= "done" /\ fpc'[f] = "done") => (fpc[f] = "wait" /\ wval)
       /\ (fpc[f] = "post" /\ fpc'[f] /= "post")
            => \/ fpc'[f] = "wait" /\ wto' = f
               \/ fpc'[f] = "postParked" /\ flushq' = Append(flushq, f)

C31_FlushReplyProtocol ==
  /\ [](C31_ReplyState)
  /\ [][C31_ReplyStep]_vars

\* C31's case: after a record was written and flushed, the worker is about
\* to reply false to a Flush caller because another record is buffered.
C31_Witness ==
  /\ wpc = "reply"
  /\ ~wval
  /\ fpc[wto] = "wait"
  /\ Len(appendCh) > 0
  /\ Len(subLog) >= 1
  /\ subFlushed = Len(subLog)

\* Flush caller f is inside a Flush call.
InFlush(f) == fpc[f] \in {"post", "postParked", "wait"}

\* C32: with finitely many records submitted, the worker and the callers
\* kept running and the sub-appender's calls returning, every Flush call
\* returns, whatever the producers and the other Flush callers do.
C32_FlushReturns ==
  \A f \in Flushers : InFlush(f) ~> (fpc[f] = "done")

\* C32's case: two Flush callers have both returned, a record having been
\* submitted beside them.
C32_Witness ==
  /\ nfl = 2
  /\ \A f \in Flushers : fn[f] = 1 /\ fpc[f] = "done"
  /\ Len(subLog) >= 1

\* C38: the asynchronous appender does not deadlock. While a call of Append
\* or of Flush has not returned, a step of a pending caller or of the worker
\* is possible (no new call is needed to go on); a parked worker has no
\* caller parked on either of its channels; and a Flush caller that waits
\* for its reply is the one the worker is about to answer.
C38_Pending ==
  \/ \E p \in Producers : ppc[p] /= "idle"
  \/ \E f \in Flushers : fpc[f] \notin {"idle", "done"}

C38_Progress ==
  \/ \E p \in Producers : AppendSendWarning(p) \/ AppendSendLog(p)
  \/ \E f \in Flushers : FlushPost(f)
  \/ WorkerNext

C38_NoDeadlock ==
  /\ C38_Pending => ENABLED C38_Progress
  /\ wpc = "parked" => sendq = <<>> /\ flushq = <<>>
  /\ \A f \in Flushers : fpc[f] = "wait" => wto = f /\ wpc \in {"gotFlush", "reply"}

\* Producers are parked in their sends and a Flush caller in its send while
\* the worker is in the sub-appender.
C38_Witness ==
  /\ \E p \in Producers : ppc[p] = "logParked"
  /\ \E p \in Producers : ppc[p] = "warnParked"
  /\ \E f \in Flushers : fpc[f] = "postParked"
  /\ wpc = "append"

\* The worker's step out of self.Appender.Flush(): it goes back to the loop
\* with needsFlush false, errHandler is not called and no Flush caller's
\* position changes.
C40_FlushStep ==
  (wpc = "flush" /\ wpc' /= "flush") =>
    /\ wpc' = "loop"
    /\ needsFlush' = FALSE
    /\ handled' = handled
    /\ fpc' = fpc

\* C40: errors of the sub-appender's Flush are swallowed. Flush returns nil
\* whatever the sub-appender's Flush returned; the worker's step out of the
\* sub-appender's Flush calls no errHandler and reaches no Flush caller; and
\* errHandler is only ever called with the errors of the sub-appender's
\* Append, once each.
C40_FlushErrorsSwallowed ==
  /\ [][C40_FlushStep]_vars
  /\ [](/\ FlushResult = "nil"
        /\ Range(handled) \subseteq errs
        /\ Len(handled) = Cardinality(Range(handled)))

\* An errHandler is set, the sub-appender's Flush has returned an error and
\* its Append none, the Flush call has returned and errHandler was not called.
C40_Witness ==
  /\ hasEh
  /\ flushErr
  /\ errs = {}
  /\ handled = <<>>
  /\ \E f \in Flushers : fpc[f] = "done"

(***************************************************************************)
(* Claims about the rolling file appender (RfaSpec).                       *)
(***************************************************************************)
\* A call of Append, Rotate or Reopen, or Build, is made in this step.
CallStep == rfaLast' /= rfaLast
AppendStep == CallStep /\ rfaLast'.op = "Append"
\* The call of this step ran rotate, and rotate got through.
RotationStep == CallStep /\ rfaLast'.rot = 1 /\ rfaLast'.err \in {"nil", "MinorRotationError"}

\* The header lines logHeader writes.
HeaderLines == [i \in 1..rfaCfg.header |-> Hdr]
\* The names of the rotated files that appear in this step.
NewRotated == DOMAIN fs'.rotated \ DOMAIN fs.rotated

\* C16: an Append call runs rotate iff its write succeeded and the size
\* trigger (maxFileSize > 0, and the size counted so far plus the bytes just
\* written is above it) or the duration trigger (maxDuration > 0, and more
\* than maxDuration has passed since the epoch start) holds; an Append that
\* does not rotate leaves the record at the end of the active file.
C16_Step ==
  AppendStep =>
    LET wrote == rfa.file = "open" /\ rfaLast'.fault /= "write"
        size == rfa.curFileSize + rfaLast'.rec.n
        bySize == rfaCfg.maxFileSize > 0 /\ size > rfaCfg.maxFileSize
        byTime == /\ rfaCfg.maxDuration > 0
                  /\ rfa.state /= NoState
                  /\ now - rfa.state > rfaCfg.maxDuration
    IN  /\ (rfaLast'.rot = 1) <=> (wrote /\ (bySize \/ byTime))
        /\ (wrote /\ ~(bySize \/ byTime)) =>
              /\ fs'.active.content = Append(fs.active.content, rfaLast'.rec)
              /\ fs'.rotated = fs.rotated
              /\ rfa'.curFileSize = size

C16_RotationTrigger == [][C16_Step]_vars

\* C16's case: with the size trigger disabled an Append rotated on the
\* duration trigger, after an earlier Append of a long record that did not.
C16_Witness ==
  /\ rfaLast.op = "Append"
  /\ rfaLast.rot = 1
  /\ rfaLast.recs = 2
  /\ rfaCfg.maxFileSize <= 0
  /\ rfaCfg.maxDuration > 0
  /\ \E nm \in DOMAIN fs.rotated :
       \E i \in 1..Len(fs.rotated[nm]) : fs.rotated[nm][i] = LogRec(1, MaxRecLen)

\* C17: a rotation that gets through - run by Append on either trigger, by
\* Rotate or by Build - leaves curFileSize 0 and the epoch start, in
\* self.state and in the state file, at the time of the rotation.
C17_Step ==
  RotationStep =>
    /\ rfa'.curFileSize = 0
    /\ rfa'.state = now
    /\ fs'.sidecar = now

C17_RotationResetsBoth == [][C17_Step]_vars

\* C17's case: the size trigger fired, with the duration trigger set and
\* not due, at a time later than the epoch start.
C17_Witness ==
  /\ rfaLast.op = "Append"
  /\ rfaLast.rot = 1
  /\ rfaLast.err = "nil"
  /\ rfaCfg.maxFileSize > 0
  /\ rfaCfg.maxDuration > 0
  /\ rfaLast.rec.n > rfaCfg.maxFileSize
  /\ now = 1
  /\ rfa.state = 1

\* C18: when no file operation fails, an Append whose record brings
\* curFileSize above maxFileSize rotates once: exactly one rotated file is
\* new afterwards, its last entry is that record, and the active file holds
\* the header lines and nothing else.
C18_Step ==
  (/\ AppendStep
   /\ rfaLast'.fault = "none"
   /\ rfaCfg.maxFileSize > 0
   /\ rfa.curFileSize + rfaLast'.rec.n > rfaCfg.maxFileSize) =>
    /\ rfaLast'.rot = 1
    /\ rfaLast'.err = "nil"
    /\ Cardinality(NewRotated) = 1
    /\ \A nm \in NewRotated :
         /\ fs'.rotated[nm] /= <<>>
         /\ fs'.rotated[nm][Len(fs'.rotated[nm])] = rfaLast'.rec
    /\ fs'.active = Existing(HeaderLines)

C18_SizeRotationPostState == [][C18_Step]_vars

\* C19: the header is not counted: a call that writes the header leaves
\* curFileSize at 0 (after a rotation) or at the size the file had before
\* the call (Build without rotation, Reopen), an Append that does not rotate
\* adds the bytes of its record only, and no call makes more than one
\* rotated file.
C19_Step ==
  /\ RotationStep => rfa'.curFileSize = 0
  /\ (CallStep /\ rfaLast'.rot = 0 /\ rfaLast'.err = "nil") =>
       rfa'.curFileSize =
         IF rfaLast'.op = "Append" THEN rfa.curFileSize + rfaLast'.rec.n
         ELSE IF fs.active.exists THEN FileSize(fs.active.content) ELSE 0
  /\ CallStep => Cardinality(NewRotated) <= 1

C19_HeaderNotCounted == [][C19_Step]_vars

\* C19's case: a header longer than maxFileSize was written after a
\* rotation, and the next Append, of a short record, did not rotate.
C19_Witness ==
  /\ rfaCfg.header >= 1
  /\ rfaCfg.maxFileSize > 0
  /\ HdrLen > rfaCfg.maxFileSize
  /\ DOMAIN fs.rotated /= {}
  /\ rfaLast.op = "Append"
  /\ rfaLast.rot = 0
  /\ rfaLast.err = "nil"
  /\ rfa.curFileSize = 1
  /\ fs.active.content = Append(HeaderLines, rfaLast.rec)

\* The rotated files of before the step that are gone after it, neither
\* under their name nor compressed.
Gone == {nm \in DOMAIN fs.rotated :
           nm \notin DOMAIN fs'.rotated /\ GzName(nm) \notin DOMAIN fs'.rotated}

\* C20: after a rotation that returned nil the active file exists; with
\* maxRotatedLogs = M > 0 at most M rotated files, the .gz ones included,
\* are on disk and every file removed is older, by (time, serial), than
\* every file kept; with M <= 0 no rotated file is removed.
C20_Step ==
  (CallStep /\ rfaLast'.rot = 1 /\ rfaLast'.err = "nil") =>
    /\ fs'.active.exists
    /\ rfaCfg.maxRotatedLogs > 0 =>
         /\ Cardinality(DOMAIN fs'.rotated) <= rfaCfg.maxRotatedLogs
         /\ \A g \in Gone, kept \in DOMAIN fs'.rotated : ~Less(kept, g)
    /\ rfaCfg.maxRotatedLogs <= 0 => Gone = {}

C20_RetentionPruning == [][C20_Step]_vars

\* The call of this step ran rotate up to renameLogFile: its Close, if there
\* was a handle to close, succeeded.
RenameStep ==
  /\ CallStep
  /\ rfaLast'.rot = 1
  /\ rfa.file \in {"nil", "none", "open", "moved"}
  /\ rfaLast'.fault /= "close"

\* C21: renameLogFile renames the file at absPath to the name of the current
\* second with the smallest serial from 0 (no suffix) whose name is free,
\* which is never a name on disk, and leaves every rotated file as it was;
\* when no serial up to MAX_ROTATE_SERIAL_NUM is free it returns RenameError
\* and renames nothing.
C21_Step ==
  (RenameStep /\ rfaLast'.fault = "none" /\ fs.active.exists) =>
    LET written == IF rfaLast'.op = "Append" THEN <<rfaLast'.rec>> ELSE <<>>
        w == [World EXCEPT !.active.content = @ \o written]
        free == FreeSerials(w, now)
        r == renameLogFile(w, now, "none")
    IN  IF free = {}
          THEN /\ rfaLast'.err = "RenameError"
               /\ r.rotated = fs.rotated /\ r.active = w.active
               /\ fs'.rotated = fs.rotated /\ fs'.active = w.active
          ELSE \E n \in free :
                 LET nm == rotatedFilename(now, n)
                 IN  /\ \A m \in 0..(n - 1) : rotatedFilename(now, m) \in DOMAIN fs.rotated
                     /\ nm \notin DOMAIN fs.rotated
                     /\ DOMAIN r.rotated = DOMAIN fs.rotated \cup {nm}
                     /\ r.rotated[nm] = w.active.content
                     /\ \A x \in DOMAIN fs.rotated : r.rotated[x] = fs.rotated[x]
                     /\ ~r.active.exists
                     /\ r.err = "nil"
                     /\ (~rfaCfg.compressRotatedLogs /\ rfaCfg.maxRotatedLogs <= 0) =>
                          fs'.rotated = r.rotated

C21_CollisionSafeNames == [][C21_Step]_vars

\* C21's case: every serial of the current second was given to a rotated
\* file, in turn, and the next rotation found none free.
C21_Witness ==
  /\ rfaLast.rot = 1
  /\ rfaLast.err = "RenameError"
  /\ rfaLast.fault = "none"
  /\ fs.active.exists
  /\ \A n \in 0..MAX_ROTATE_SERIAL_NUM : rotatedFilename(now, n) \in DOMAIN fs.rotated

\* Build is called in this step.
BuildStep == CallStep /\ rfaLast'.op = "Build"

\* C22: a Build that does not rotate takes the epoch start from the state
\* file when there is one, and leaves the state file as it is; when there
\* is none it stamps the time of the Build call and writes it to the state
\* file. The first Append after such a Build then rotates on the duration
\* trigger iff more than maxDuration has passed since the time in the state
\* file.
C22_Step ==
  /\ (BuildStep /\ rfaLast'.rot = 0 /\ rfaLast'.err = "nil") =>
       IF fs.sidecar /= NoSidecar
         THEN rfa'.state = fs.sidecar /\ fs'.sidecar = fs.sidecar
         ELSE rfa'.state = now /\ fs'.sidecar = now
  /\ (/\ AppendStep
      /\ rfaLast.op = "Build" /\ rfaLast.rot = 0 /\ rfaLast.err = "nil"
      /\ rfaLast'.fault /= "write") =>
       LET bySize == /\ rfaCfg.maxFileSize > 0
                     /\ rfa.curFileSize + rfaLast'.rec.n > rfaCfg.maxFileSize
           byTime == rfaCfg.maxDuration > 0 /\ now - fs.sidecar > rfaCfg.maxDuration
       IN  (rfaLast'.rot = 1) <=> (bySize \/ byTime)

C22_EpochSurvivesRestart == [][C22_Step]_vars

\* C22's case: Build found a state file written before it was called, did
\* not rotate, and the epoch start is the time in that file.
C22_Witness ==
  /\ rfaLast.op = "Build"
  /\ rfaLast.rot = 0
  /\ rfaLast.err = "nil"
  /\ rfaCfg.maxDuration > 0
  /\ rfaLast.at = MaxTime
  /\ rfa.state < rfaLast.at
  /\ fs.sidecar = rfa.state

\* C23: when no file operation fails, a Build with rotateIfExists and a file
\* at absPath leaves that file's content under a new rotated name and at
\* absPath a new file holding the header lines alone, with curFileSize 0;
\* any other Build opens or creates the file at absPath, keeps what it
\* holds, writes the header after it, and takes curFileSize from the size
\* the file had.
C23_Step ==
  (BuildStep /\ rfaLast'.fault = "none") =>
    /\ rfaLast'.err = "nil"
    /\ rfa'.file = "open"
    /\ IF rfaCfg.rotateIfExists /\ fs.active.exists
         THEN /\ rfaLast'.rot = 1
              /\ fs'.active = Existing(HeaderLines)
              /\ rfa'.curFileSize = 0
              /\ \E nm \in DOMAIN fs'.rotated \ DOMAIN fs.rotated :
                   fs'.rotated[nm] = fs.active.content
         ELSE /\ rfaLast'.rot = 0
              /\ fs'.active = Existing(fs.active.content \o HeaderLines)
              /\ rfa'.curFileSize = FileSize(fs.active.content)
              /\ fs'.rotated = fs.rotated

C23_ConstructionPolicy == [][C23_Step]_vars

\* C23's case: Build rotated the file that was at absPath, and an Append
\* after it wrote to the new file.
C23_Witness ==
  /\ rfaCfg.rotateIfExists
  /\ rfaCfg.header >= 1
  /\ rfaLast.op = "Append"
  /\ rfaLast.ops = 1
  /\ rfaLast.rot = 0
  /\ fs.active.content = Append(HeaderLines, rfaLast.rec)
  /\ \E nm \in DOMAIN fs.rotated : fs.rotated[nm] = <<OldBytes(MaxRecLen)>>

\* C27: a rotation that fails because no serial of the second is free
\* leaves the handle as it was: a handle that was open is open, and
\* curFileSize is what it was before rotate ran.
C27_Step ==
  (/\ RenameStep
   /\ rfaLast'.fault = "none"
   /\ rfa.file = "open"
   /\ fs.active.exists
   /\ FreeSerials(World, now) = {}) =>
    /\ rfaLast'.err = "RenameError"
    /\ rfa'.file = "open"
    /\ rfa'.curFileSize =
         rfa.curFileSize + (IF rfaLast'.op = "Append" THEN rfaLast'.rec.n ELSE 0)

C27_ExhaustionKeepsHandle == [][C27_Step]_vars

(***************************************************************************)
(* The rolling file appender and an external rotation (RfaExtSpec).        *)
(***************************************************************************)
\* C24: a Reopen that returns nil leaves the handle on the file at absPath,
\* created if it was missing, with curFileSize the size that file had when
\* Reopen was called (0 if missing), the header written after what it held,
\* and the epoch start, in self.state and the state file, at the time of the
\* call; the file renamed away keeps what was written to it and gets nothing
\* more: an Append through a handle on the renamed file writes to that file
\* alone, an Append through a handle on absPath never writes to it.
C24_Step ==
  /\ (CallStep /\ rfaLast'.op = "Reopen" /\ rfaLast'.err = "nil") =>
       /\ rfa'.file = "open"
       /\ rfa'.curFileSize = (IF fs.active.exists THEN FileSize(fs.active.content) ELSE 0)
       /\ fs'.active = Existing(fs.active.content \o HeaderLines)
       /\ rfa'.state = now
       /\ fs'.sidecar = now
       /\ fs'.moved = fs.moved
  /\ (AppendStep /\ rfa.file = "moved" /\ rfaLast'.fault = "none") =>
       /\ fs'.moved.content = Append(fs.moved.content, rfaLast'.rec)
       /\ fs'.active = fs.active
  /\ (AppendStep /\ rfa.file = "open") => fs'.moved = fs.moved

C24_ReopenAfterExternalRotation == [][C24_Step]_vars

\* C24's case: the file was renamed away, a record went to the renamed
\* file, Reopen was called, and a second record is the only one in the new
\* file at absPath.
C24_Witness ==
  /\ rfaLast.op = "Append"
  /\ rfaLast.err = "nil"
  /\ rfaLast.recs = 2
  /\ rfa.file = "open"
  /\ fs.moved.exists
  /\ fs.moved.content /= <<>>
  /\ fs.moved.content[Len(fs.moved.content)] = LogRec(1, MaxRecLen)
  /\ fs.active.content = Append(HeaderLines, rfaLast.rec)
  /\ rfa.curFileSize = rfaLast.rec.n

(***************************************************************************)
(* The rolling file appender on a failing filesystem (RfaFaultSpec).       *)
(***************************************************************************)
\* The last call ran rotate and rotate failed in its close, rename or create.
RotationFailed ==
  /\ rfaLast.rot = 1
  /\ \/ rfaLast.err \in {"CloseError", "RenameError"}
     \/ rfaLast.err = "OpenError" /\ rfaLast.fault = "create"

\* The last call is a failed rotation, or an Append that found the appender
\* as a failed rotation left it.
Degraded ==
  \/ RotationFailed
  \/ rfaLast.op = "Append" /\ rfaLast.err \in {"NoFileError", "WriteError"}

\* C25: after a rotation that failed in its close, rename or create, every
\* Append made before a Reopen or Rotate returns NoFileError and writes
\* nothing.
C25_Step ==
  (AppendStep /\ Degraded) =>
    /\ rfaLast'.err = "NoFileError"
    /\ fs' = fs
    /\ rfa' = rfa

C25_DegradedAppends == [][C25_Step]_vars

\* C26: after a rotation that failed in its close, rename, create or stamp,
\* a Reopen or Rotate during which no file operation fails, and for which a
\* rotated name is free, returns nil and leaves the handle open on the file
\* at absPath.
C26_Step ==
  (/\ CallStep
   /\ rfaLast'.op \in {"Reopen", "Rotate"}
   /\ rfaLast'.fault = "none"
   /\ FreeSerials(World, now) /= {}
   /\ \/ Degraded
      \/ rfaLast.rot = 1 /\ rfaLast.fault = "stamp" /\ rfaLast.err /= "nil") =>
    /\ rfaLast'.err = "nil"
    /\ rfa'.file = "open"
    /\ fs'.active.exists

C26_Recoverable == [][C26_Step]_vars

\* C28: an Append on an appender whose file is nil returns NoFileError,
\* writes nothing, leaves curFileSize and the epoch start as they were and
\* does not rotate.
C28_Step ==
  (AppendStep /\ rfa.file = "nil") =>
    /\ rfaLast'.err = "NoFileError"
    /\ rfaLast'.rot = 0
    /\ fs' = fs
    /\ rfa' = rfa

C28_NoFileError == [][C28_Step]_vars

\* C28's case: a rotation failed to create the new file, and an Append made
\* when the duration trigger was due returned NoFileError.
C28_Witness ==
  /\ rfaLast.op = "Append"
  /\ rfaLast.err = "NoFileError"
  /\ rfa.file = "nil"
  /\ ~fs.active.exists
  /\ rfaCfg.maxDuration > 0
  /\ rfa.state /= NoState
  /\ now - rfa.state > rfaCfg.maxDuration

\* The pruning of this step's rotation failed: more names than
\* maxRotatedLogs are left.
PruneFailed ==
  /\ rfaLast'.fault = "remove"
  /\ rfaCfg.maxRotatedLogs > 0
  /\ Cardinality({nm \in DOMAIN fs'.rotated : MatchesRotatedTime(nm)}) > rfaCfg.maxRotatedLogs

\* The compression of this step's rotation failed: more uncompressed names
\* than maxUncompressedLogs are left.
CompressFailed ==
  /\ rfaLast'.fault = "compress"
  /\ rfaCfg.compressRotatedLogs
  /\ rfaCfg.maxUncompressedLogs >= 0
  /\ Cardinality({nm \in DOMAIN fs'.rotated : MatchesRotatedTime(nm)}) > rfaCfg.maxUncompressedLogs

\* C30: a rotation run by Append or Rotate whose pruning or compression
\* failed returns MinorRotationError, with the new file at absPath open and
\* the epoch stamped; the Append after it succeeds.
C30_Step ==
  /\ (/\ CallStep
      /\ rfaLast'.op \in {"Append", "Rotate"}
      /\ rfaLast'.rot = 1
      /\ rfaLast'.err \in {"nil", "MinorRotationError"}
      /\ PruneFailed \/ CompressFailed) =>
       /\ rfaLast'.err = "MinorRotationError"
       /\ rfa'.file = "open"
       /\ fs'.active = Existing(HeaderLines)
       /\ rfa'.state = now
       /\ fs'.sidecar = now
  /\ (AppendStep /\ rfaLast.err = "MinorRotationError" /\ rfaLast'.fault = "none") =>
       rfaLast'.err = "nil"

C30_MinorRotationErrors == [][C30_Step]_vars

(***************************************************************************)
(* Claims about the rolling file appender built over an existing file on a *)
(* failing filesystem (RfaBuildFaultSpec).                                 *)
(***************************************************************************)
\* C36: once Build has returned an appender, self.state is not nil, after
\* Build and after every Append, Rotate and Reopen.
C36_StateNonNil == Built => rfa.state /= NoState

(***************************************************************************)
(* compressLogFile (GzSpec).                                               *)
(***************************************************************************)
\* C29: compressLogFile has removed the rotated file only if logpath.gz
\* holds the whole compressed stream, is closed, and has the rotated file's
\* modification time; a call that failed in any statement has not removed
\* the rotated file.
C29_SafeCompression ==
  gz.pc /= "idle" =>
    /\ ~gz.orig =>
         /\ gz.out.exists
         /\ gz.out.bytes = gz.len
         /\ gz.out.complete
         /\ gz.outHandle = "closed"
         /\ gz.out.mtime = gz.mtime
    /\ gz.pc = "failed" => gz.orig

\* C29's case: the call returned nil, having replaced an earlier logpath.gz
\* and set its modification time back to that of the rotated file.
C29_Witness ==
  /\ gz.pc = "done"
  /\ ~gz.orig
  /\ gz.len = MaxRecLen
  /\ gz.mtime < gz.t
  /\ gz.out.mtime = gz.mtime

=============================================================================
